---- MODULE Spec2Model ----
(***************************************************************************)
(* ChatCompletionAbciApp: the replicated store (`requests`, `responses`)   *)
(* and the rounds that change it, as one agent's replica executes them.    *)
(*                                                                         *)
(*   rounds      packages/algovera/skills/chat_completion_abci/rounds.py   *)
(*   behaviours  chat_completion_agent/vendor/algovera/skills/             *)
(*               chat_completion_abci/behaviours.py                        *)
(*                                                                         *)
(* Agent addresses are the integers 1..NumAgents, the empty processor      *)
(* string "" is NoProcessor.  A request is the record                      *)
(*   [id, request_time, num_tries, processor, processed, failed]           *)
(* (`failed` = FALSE stands for the absent key), a response the record     *)
(*   [id, request_time, processor, processed].                             *)
(* The text fields of a request (system_message, user_message, response)   *)
(* and response_time are carried through unread by every round; two        *)
(* submissions of one id that differ in a field are represented by two     *)
(* submissions that differ in request_time.                                *)
(***************************************************************************)
EXTENDS Integers, Sequences, FiniteSets, TLC

\* ---- bounds of the model
NumAgents == 2
NumIds == 3
NumTimes == 2
MaxBatch == 2
MaxRequests == 2
DeepRequests == 5
MaxAttempts == 4
MaxStale == 1
NumRandomness == 2
NumJobs == 2
MaxRetries == 0
MaxPending == 2
NumContexts == 1
NumArrivals == 2
CollectRequests == 1
MaxPosts == 2
MaxPeriods == 1
NumVoters == 4
MaxList == 3
NumQuestions == 2
NumTexts == 2
NumMessageIds == 2
NumDialogues == 2
MaxMessages == 3
MaxBackoffRetries == 3
NumResults == 2
NumSkills == 2
MaxQueued == 2
LiveRequests == 3

\* ---- program constants
MAX_TRIES == 3
RANDOM_MAX == 3
initial_delay == 1
default_max_retries == 3
NoProcessor == 0

Agents == 1..NumAgents
Ids == 1..NumIds
Times == 1..NumTimes
TriesVals == {0, MAX_TRIES}

\* a request as the HTTP handler queues it in context.state.new_requests
NewRequest(id, t, n) ==
    [id |-> id, request_time |-> t, num_tries |-> n,
     processor |-> NoProcessor, processed |-> FALSE, failed |-> FALSE]

Items == {NewRequest(id, t, n) : id \in Ids, t \in Times, n \in TriesVals}

RECURSIVE BatchesUpTo(_)
BatchesUpTo(k) ==
    IF k = 0 THEN {{}}
    ELSE LET P == BatchesUpTo(k - 1) IN P \cup {p \cup {x} : p \in P, x \in Items}

\* the lists context.state.new_requests can hold when a round starts, by
\* the number of requests the handlers may still accept
Batches == [q \in 0..MaxBatch |-> BatchesUpTo(q)]

Min(m, n) == IF m <= n THEN m ELSE n

StaleCount(b) == Cardinality({x \in b : x.num_tries >= MAX_TRIES})

VARIABLES
    round,           \* the current round of the AbciApp
    collection,      \* the current round's payloads, keyed by sender
    participants,    \* store: `participants`
    requests,        \* store: `requests`
    responses,       \* store: `responses`
    not_merged,      \* history: the new requests that the last completed
                     \* SynchronizeRequestsRound did not put into `requests`
    exception,       \* "" or the exception that left end_block
    quota,           \* number of requests the handlers will still accept
    stale_quota,     \* ... of them with num_tries >= MAX_TRIES
    failures,        \* per request, number of processing attempts that failed
    read_requests    \* per agent, the list its ProcessRequestBehaviour got
                     \* from synchronized_data.requests, as it is now

cc_vars == <<round, collection, participants, requests, responses,
             not_merged, exception, quota, stale_quota, failures,
             read_requests>>

\* ---- LLMChatCompletionAbciApp (chat_completion_fsm_app)
VARIABLES
    llm_round,       \* the current round
    llm_submitted,   \* the payloads the behaviours sent in this round, by sender
    llm_event,       \* the event of the last end_block or timeout
    llm_participants,           \* store: `participants`
    most_voted_randomness,      \* store
    most_voted_keeper_address,  \* store
    retries,         \* per agent, context.randomness_api retries attempted
    interact_rabbitmq,  \* per agent, the request and response fields of
                        \* context.interact_rabbitmq
    request_queue,   \* RabbitMQ request queue
    response_queue,  \* RabbitMQ response queue
    queue_ops,       \* history: per agent, its queue operations in this round
    mersenne         \* the index random.randint gives after random.seed(r, 2)

llm_vars == <<llm_round, llm_submitted, llm_event, llm_participants,
              most_voted_randomness, most_voted_keeper_address, retries,
              interact_rabbitmq, request_queue, response_queue, queue_ops,
              mersenne>>

\* ---- one partitioning pass, applied to a given list
VARIABLES
    pass_pc,         \* "input", then "done" or the exception of the pass
    pass_pending,    \* the sorted pending list before the pass
    pass_participants,  \* list(all_participants)
    pass_out         \* the pending list after the pass

pass_vars == <<pass_pc, pass_pending, pass_participants, pass_out>>

\* ---- HttpHandler of one agent
VARIABLES
    http_msg,            \* the POST request handled last
    new_chat_requests,   \* context.state.new_chat_requests
    outbox,              \* status codes of the responses put in the outbox
    handler_exception,   \* exception the last handler call ended with
    store_embeddings,           \* ids of the embeddings in synchronized data
    store_chat_histories,      \* memory ids in synchronized data
    store_attributes     \* whether synchronized_data has the attributes read

http_vars == <<http_msg, new_chat_requests, outbox, handler_exception,
               store_embeddings, store_chat_histories, store_attributes>>

\* ---- ValoryChatAbciApp
VARIABLES
    v_round,         \* current round of ValoryChatAbciApp
    v_collection,    \* payloads of the round, in the order they arrived
    chats,           \* synchronized_data.chats
    embedding,       \* synchronized_data.embedding
    chat_histories,  \* synchronized_data.chat_histories
    state_new_chat_requests,       \* context.state.new_chat_requests
    state_new_embedding_requests,  \* context.state.new_embedding_requests
    v_quota,         \* requests that may still arrive
    v_exception      \* exception a behaviour ended with

valory_vars == <<v_round, v_collection, chats, embedding, chat_histories,
                 state_new_chat_requests, state_new_embedding_requests,
                 v_quota, v_exception>>

\* ---- SlwWorldAbciApp
VARIABLES
    slw_round,         \* current round of SlwWorldAbciApp
    slw_event,         \* event the last round ended with
    slw_collection,    \* sender -> payload value of the open round
    slw_order,         \* senders of RegistrationRound in order of arrival
    slw_participants,  \* `participants` as written to the store
    init_data,         \* synchronized_data.init_data
    processed_data,    \* synchronized_data.processed_data
    printed_data,      \* synchronized_data.printed_data
    slw_keeper,        \* synchronized_data.most_voted_keeper_address
    period_count,      \* synchronized_data.period_count
    slw_agent          \* per agent: its current behaviour and how far it is

slw_vars == <<slw_round, slw_event, slw_collection, slw_order,
              slw_participants, init_data, processed_data, printed_data,
              slw_keeper, period_count, slw_agent>>

\* ---- one GetDataRound of SlwWorldAbciApp with NumVoters participants
VARIABLES
    gd_collection,     \* sender -> payload content of the round
    gd_result,         \* what end_block returned last: <<>> is None
    gd_init_data       \* synchronized_data.init_data

gd_vars == <<gd_collection, gd_result, gd_init_data>>

\* ---- remove_duplicates applied to a list of items
VARIABLES
    rd_pc,             \* "input", "once" or "twice"
    rd_lst,            \* the argument
    rd_out,            \* remove_duplicates(lst)
    rd_again           \* remove_duplicates(remove_duplicates(lst))

rd_vars == <<rd_pc, rd_lst, rd_out, rd_again>>

\* ---- ChatCompletionSerializer applied to one ChatCompletionMessage
VARIABLES
    ser_pc,            \* "input", "encoded", "decoded" or "raised"
    ser_msg,           \* the message handed to encode
    ser_wire,          \* what encode returned
    ser_out,           \* what decode returned
    ser_error          \* the exception raised, "" if none

ser_vars == <<ser_pc, ser_msg, ser_wire, ser_out, ser_error>>

\* ---- dialogues of the chat_completion and rabbitmq protocols
VARIABLES
    dlg_protocol,      \* "chat_completion" or "rabbitmq"
    dialogues,         \* dialogue -> its messages: [performative, target]
    dlg_last           \* the last message offered and whether it was added

dlg_vars == <<dlg_protocol, dialogues, dlg_last>>

\* ---- retry_with_exponential_backoff (connections/chat_completion)
VARIABLES
    wrapper            \* the frame of one call of wrapper(*args, **kwargs):
                       \* position, max_retries, num_retries, delay, the
                       \* outcomes of the calls of func so far, and what
                       \* the wrapper returned or raised

bo_vars == <<wrapper>>

\* ---- RabbitMQConnection and ChatCompletionConnection
VARIABLES
    queues,            \* the RabbitMQ broker: queue name -> message bodies
    on_send            \* the last call of on_send: its envelope, the
                       \* envelopes it put and the exception that left it

conn_vars == <<queues, on_send>>

\* the variables of the other apps and components
not_cc ==
    <<llm_vars, pass_vars, http_vars, valory_vars, slw_vars, gd_vars,
      rd_vars, ser_vars, dlg_vars, bo_vars, conn_vars>>

not_llm ==
    <<cc_vars, pass_vars, http_vars, valory_vars, slw_vars, gd_vars,
      rd_vars, ser_vars, dlg_vars, bo_vars, conn_vars>>

not_pass ==
    <<cc_vars, llm_vars, http_vars, valory_vars, slw_vars, gd_vars,
      rd_vars, ser_vars, dlg_vars, bo_vars, conn_vars>>

not_http ==
    <<cc_vars, llm_vars, pass_vars, valory_vars, slw_vars, gd_vars,
      rd_vars, ser_vars, dlg_vars, bo_vars, conn_vars>>

not_valory ==
    <<cc_vars, llm_vars, pass_vars, http_vars, slw_vars, gd_vars,
      rd_vars, ser_vars, dlg_vars, bo_vars, conn_vars>>

not_slw ==
    <<cc_vars, llm_vars, pass_vars, http_vars, valory_vars, gd_vars,
      rd_vars, ser_vars, dlg_vars, bo_vars, conn_vars>>

not_gd ==
    <<cc_vars, llm_vars, pass_vars, http_vars, valory_vars, slw_vars,
      rd_vars, ser_vars, dlg_vars, bo_vars, conn_vars>>

not_rd ==
    <<cc_vars, llm_vars, pass_vars, http_vars, valory_vars, slw_vars,
      gd_vars, ser_vars, dlg_vars, bo_vars, conn_vars>>

not_ser ==
    <<cc_vars, llm_vars, pass_vars, http_vars, valory_vars, slw_vars,
      gd_vars, rd_vars, dlg_vars, bo_vars, conn_vars>>

not_dlg ==
    <<cc_vars, llm_vars, pass_vars, http_vars, valory_vars, slw_vars,
      gd_vars, rd_vars, ser_vars, bo_vars, conn_vars>>

not_bo ==
    <<cc_vars, llm_vars, pass_vars, http_vars, valory_vars, slw_vars,
      gd_vars, rd_vars, ser_vars, dlg_vars, conn_vars>>

not_conn ==
    <<cc_vars, llm_vars, pass_vars, http_vars, valory_vars, slw_vars,
      gd_vars, rd_vars, ser_vars, dlg_vars, bo_vars>>

vars ==
    <<cc_vars, llm_vars, pass_vars, http_vars, valory_vars, slw_vars,
      gd_vars, rd_vars, ser_vars, dlg_vars, bo_vars, conn_vars>>

\* ---- helpers
EmptyCollection == [a \in {} |-> 0]

Range(s) == {s[i] : i \in DOMAIN s}

RECURSIVE Orderings(_)
\* every order in which a Python set / frozenset can be iterated
Orderings(S) ==
    IF S = {} THEN {<<>>}
    ELSE UNION {{<<x>> \o p : p \in Orderings(S \ {x})} : x \in S}

RequestIds(s) == {s[i].id : i \in DOMAIN s}

UniqueIds(s) == \A i, j \in DOMAIN s : s[i].id = s[j].id => i = j

\* variant: the test passes as soon as one payload is there
AllSubmittedOne(n) == n >= 1

\* len(self.collection) == len(self.synchronized_data.all_participants)
AllSubmitted(n) == n = Cardinality(Agents)

\* collection_threshold_reached / len(collection) == len(all_participants)
CollectionFull ==
    DOMAIN collection \subseteq Agents /\ AllSubmitted(Cardinality(DOMAIN collection))

RECURSIVE SortedAgents(_)
\* tuple(sorted(self.collection))
SortedAgents(S) ==
    IF S = {} THEN <<>>
    ELSE LET m == CHOOSE x \in S : \A y \in S : x <= y
         IN <<m>> \o SortedAgents(S \ {m})

\* insert x behind every element whose request_time is <= x.request_time
InsertByTime(s, x) ==
    LET k == Cardinality({i \in DOMAIN s : s[i].request_time <= x.request_time})
    IN SubSeq(s, 1, k) \o <<x>> \o SubSeq(s, k + 1, Len(s))

RECURSIVE SortByTime(_)
\* list.sort(key=lambda x: x["request_time"]): ascending and stable
SortByTime(s) ==
    IF s = <<>> THEN <<>>
    ELSE CHOOSE r \in {InsertByTime(front, s[Len(s)]) :
                          front \in {SortByTime(SubSeq(s, 1, Len(s) - 1))}} :
            TRUE

NothingRead == [a \in Agents |-> <<>>]

\* no ChatCompletionAbciApp is running
IdleCC ==
    /\ round = ""
    /\ collection = EmptyCollection
    /\ participants = <<>>
    /\ requests = <<>>
    /\ responses = <<>>
    /\ not_merged = {}
    /\ exception = ""
    /\ quota = 0
    /\ stale_quota = 0
    /\ failures = [k \in Ids \X Times |-> 0]
    /\ read_requests = NothingRead

\* no LLMChatCompletionAbciApp is running
IdleLLM ==
    /\ llm_round = ""
    /\ llm_submitted = EmptyCollection
    /\ llm_event = ""
    /\ llm_participants = <<>>
    /\ most_voted_randomness = 0
    /\ most_voted_keeper_address = 0
    /\ retries = [a \in Agents |-> 0]
    /\ interact_rabbitmq = [a \in Agents |-> [request |-> 0, response |-> 0]]
    /\ request_queue = <<>>
    /\ response_queue = <<>>
    /\ queue_ops = [a \in Agents |-> {}]
    /\ mersenne = <<>>

\* no partitioning pass is applied
IdlePass ==
    /\ pass_pc = ""
    /\ pass_pending = <<>>
    /\ pass_participants = <<>>
    /\ pass_out = <<>>

\* no HTTP request is handled
IdleHttp ==
    /\ http_msg = <<>>
    /\ new_chat_requests = <<>>
    /\ outbox = <<>>
    /\ handler_exception = ""
    /\ store_embeddings = {}
    /\ store_chat_histories = {}
    /\ store_attributes = FALSE

\* ValoryChatAbciApp is not running
IdleValory ==
    /\ v_round = ""
    /\ v_collection = <<>>
    /\ chats = <<>>
    /\ embedding = <<>>
    /\ chat_histories = <<>>
    /\ state_new_chat_requests = <<>>
    /\ state_new_embedding_requests = <<>>
    /\ v_quota = 0
    /\ v_exception = ""

\* SlwWorldAbciApp is not running
IdleSlw ==
    /\ slw_round = ""
    /\ slw_event = ""
    /\ slw_collection = <<>>
    /\ slw_order = <<>>
    /\ slw_participants = <<>>
    /\ init_data = 0
    /\ processed_data = 0
    /\ printed_data = 0
    /\ slw_keeper = 0
    /\ period_count = 0
    /\ slw_agent = <<>>

\* no GetDataRound is examined on its own
IdleGetData ==
    /\ gd_collection = <<>>
    /\ gd_result = <<"idle">>
    /\ gd_init_data = 0

\* remove_duplicates is not examined on its own
IdleDedup ==
    /\ rd_pc = ""
    /\ rd_lst = <<>>
    /\ rd_out = <<>>
    /\ rd_again = <<>>

\* no message is being serialized
IdleSerializer ==
    /\ ser_pc = ""
    /\ ser_msg = <<>>
    /\ ser_wire = <<>>
    /\ ser_out = <<>>
    /\ ser_error = ""

\* no dialogue is kept
IdleDialogues ==
    /\ dlg_protocol = ""
    /\ dialogues = <<>>
    /\ dlg_last = <<>>

\* the wrapper is not called
IdleBackoff == wrapper = <<>>

\* no connection is in use
IdleConnections ==
    /\ queues = <<>>
    /\ on_send = <<>>

InitStore ==
    /\ IdleLLM
    /\ IdlePass
    /\ IdleHttp
    /\ IdleValory
    /\ IdleSlw
    /\ IdleGetData
    /\ IdleDedup
    /\ IdleSerializer
    /\ IdleDialogues
    /\ IdleBackoff
    /\ IdleConnections
    /\ round = "RegistrationRound"
    /\ collection = EmptyCollection
    /\ participants = <<>>
    /\ requests = <<>>
    /\ responses = <<>>
    /\ not_merged = {}
    /\ exception = ""
    /\ failures = [k \in Ids \X Times |-> 0]
    /\ read_requests = NothingRead

Init ==
    /\ InitStore
    /\ quota = MaxRequests
    /\ stale_quota = MaxStale

\* the same program with a longer run of requests, all of them fresh
InitDeep ==
    /\ InitStore
    /\ quota = DeepRequests
    /\ stale_quota = 0

\* ---- RegistrationRound
RegistrationBehaviour(a) ==
    /\ exception = ""
    /\ round = "RegistrationRound"
    /\ a \notin DOMAIN collection
    /\ collection' = (a :> [sender |-> a]) @@ collection
    /\ UNCHANGED <<round, participants, requests, responses, not_merged,
                   exception, quota, stale_quota, failures, read_requests>>
    /\ UNCHANGED not_cc

RegistrationEndBlock ==
    /\ exception = ""
    /\ round = "RegistrationRound"
    /\ CollectionFull
    /\ participants' = SortedAgents(DOMAIN collection)
    /\ round' = "SynchronizeRequestsRound"
    /\ collection' = EmptyCollection
    /\ UNCHANGED <<requests, responses, not_merged, exception, quota,
                   stale_quota, failures, read_requests>>
    /\ UNCHANGED not_cc

\* ---- SynchronizeRequestsRound
\* the behaviour sends context.state.new_requests and empties it; the list
\* is read by end_block only through set.add of each element, so a batch is
\* given by the set of its elements
SynchronizeRequestsBehaviour(a) ==
    /\ exception = ""
    /\ round = "SynchronizeRequestsRound"
    /\ a \notin DOMAIN collection
    /\ \E batch \in Batches[Min(MaxBatch, quota)] :
         /\ StaleCount(batch) <= stale_quota
         /\ quota' = quota - Cardinality(batch)
         /\ stale_quota' = stale_quota - StaleCount(batch)
         /\ collection' =
              (a :> [sender |-> a, new_requests |-> batch]) @@ collection
    /\ UNCHANGED <<round, participants, requests, responses, not_merged,
                   exception, failures, read_requests>>
    /\ UNCHANGED not_cc

SameSubmission(r, x) ==
    /\ r.id = x.id
    /\ r.request_time = x.request_time
    /\ r.num_tries = x.num_tries

\* new_requests = set(); ... new_requests.add(tuple(each.items()))
NewRequestsSet(coll) == UNION {coll[a].new_requests : a \in DOMAIN coll}

\* variant: the ids of `responses` are left out of existing_ids
ExistingIdsRequestsOnly(reqs, resps) == RequestIds(reqs)

\* existing_ids: the ids already in requests and responses
ExistingIds(reqs, resps) == RequestIds(reqs) \cup RequestIds(resps)

\* remove ids already in requests and responses from the new requests
FilterNew(new, reqs, resps) ==
    IF new # <<>>
    THEN SelectSeq(new, LAMBDA r : r.id \notin ExistingIds(reqs, resps))
    ELSE new

\* variant: the ceiling test is off by one (<= instead of <)
DropExhaustedOffByOne(s) == SelectSeq(s, LAMBDA r : r.num_tries <= MAX_TRIES)

\* remove existing requests with more than 2 num_tries
DropExhausted(s) == SelectSeq(s, LAMBDA r : r.num_tries < MAX_TRIES)

\* variant: the index is not wrapped, so a request behind the n-th
\* stays without processor
AssignProcessorsNoWrap(s, parts) ==
    [k \in DOMAIN s |->
        IF s[k].processor = NoProcessor /\ k <= Len(parts)
        THEN [s[k] EXCEPT !.processor = parts[k]]
        ELSE s[k]]

\* for i, request in enumerate(existing_requests):
\*     if request["processor"] == "": request["processor"] = parts[i % n]
AssignProcessors(s, parts) ==
    [k \in DOMAIN s |->
        IF s[k].processor = NoProcessor
        THEN [s[k] EXCEPT !.processor = parts[((k - 1) % Len(parts)) + 1]]
        ELSE s[k]]

\* the `requests` that end_block writes, when the set of new requests is
\* iterated in the order `new` and the frozenset all_participants in the
\* order `parts`; each list is computed once and then sorted and assigned
SynchronizeResult(reqs, resps, new, parts) ==
    CHOOSE r \in {AssignProcessors(sorted, parts) :
                    sorted \in {SortByTime(kept) :
                       kept \in {DropExhausted(
                                    reqs \o FilterNew(new, reqs, resps))}}} :
        TRUE

SynchronizeRequestsEndBlock ==
    /\ exception = ""
    /\ round = "SynchronizeRequestsRound"
    /\ CollectionFull
    /\ \E new \in Orderings(NewRequestsSet(collection)),
          parts \in Orderings(Agents) :
         requests' = SynchronizeResult(requests, responses, new, parts)
    /\ not_merged' =
         {x \in NewRequestsSet(collection) :
            \A i \in DOMAIN requests' : ~SameSubmission(requests'[i], x)}
    /\ round' = "ProcessRequestRound"
    /\ collection' = EmptyCollection
    /\ UNCHANGED <<participants, responses, exception, quota, stale_quota,
                   failures, read_requests>>
    /\ UNCHANGED not_cc

\* ---- ProcessRequestRound
HasRequest(a) == \E i \in DOMAIN requests : requests[i].processor = a

\* next(request for request in requests if request["processor"] == address)
FirstRequest(a) ==
    requests[CHOOSE i \in DOMAIN requests :
                /\ requests[i].processor = a
                /\ \A j \in 1..(i - 1) : requests[j].processor # a]

\* the response dict of a successful call, with the fields the behaviour adds
ResponseOf(req, a) ==
    [id |-> req.id, request_time |-> req.request_time,
     processor |-> a, processed |-> TRUE]

FailureKey(req) == <<req.id, req.request_time>>

FirstRequestIndex(a) ==
    CHOOSE i \in DOMAIN requests :
        /\ requests[i].processor = a
        /\ \A j \in 1..(i - 1) : requests[j].processor # a


\* request["num_tries"] += 1, on the dict that is element i of the list the
\* behaviour got from synchronized_data.requests
IncrementInPlace(reqs, i) == [reqs EXCEPT ![i].num_tries = @ + 1]

\* On an error response the behaviour increments num_tries in the dict it
\* took from synchronized_data.requests and sends that dict as
\* failed_request; the payload carries the incremented value.  `requests`
\* is the store as the rounds write it, read_requests[a] the list that the
\* behaviour of agent a holds.

ProcessRequestBehaviour(a) ==
    /\ exception = ""
    /\ round = "ProcessRequestRound"
    /\ a \notin DOMAIN collection
    /\ IF HasRequest(a)
       THEN LET req == FirstRequest(a) IN
            \/ /\ collection' =
                    (a :> [sender |-> a,
                           response |-> <<ResponseOf(req, a)>>,
                           failed_request |-> <<>>]) @@ collection
               /\ read_requests' = [read_requests EXCEPT ![a] = requests]
               /\ UNCHANGED failures
            \/ /\ failures[FailureKey(req)] < MaxAttempts
               /\ collection' =
                    (a :> [sender |-> a,
                           response |-> <<>>,
                           failed_request |->
                              <<[req EXCEPT !.num_tries = @ + 1]>>])
                    @@ collection
               /\ read_requests' =
                    [read_requests EXCEPT
                        ![a] = IncrementInPlace(requests, FirstRequestIndex(a))]
               /\ failures' =
                    [failures EXCEPT ![FailureKey(req)] = @ + 1]
       ELSE /\ collection' =
                 (a :> [sender |-> a, response |-> <<>>,
                        failed_request |-> <<>>]) @@ collection
            /\ read_requests' = [read_requests EXCEPT ![a] = requests]
            /\ UNCHANGED failures
    /\ UNCHANGED <<round, participants, requests, responses, not_merged,
                   exception, quota, stale_quota>>
    /\ UNCHANGED not_cc

\* the payloads that carry a failed_request
FailedRequests(coll) ==
    {coll[a].failed_request[1] :
        a \in {b \in DOMAIN coll : coll[b].failed_request # <<>>}}

\* new_responses.add(tuple(res[0].items()))
NewResponsesSet(coll) ==
    {coll[a].response[1] :
        a \in {b \in DOMAIN coll : coll[b].response # <<>>}}

\* variant: the failed request is added in a hashable form, nothing raises
FailedRequestsAddNeverRaises(coll) == FALSE

\* fail = json.loads(...) is a dict, and failed_requests.add(fail) raises
\* TypeError (unhashable type: 'dict') for the first payload that has one
FailedRequestsAddRaises(coll) == FailedRequests(coll) # {}

\* update failed requests in existing_requests
MarkFailed(reqs, failed_ids) ==
    [k \in DOMAIN reqs |->
        IF reqs[k].id \in failed_ids
        THEN [reqs[k] EXCEPT !.failed = TRUE, !.processor = NoProcessor,
                             !.processed = FALSE]
        ELSE reqs[k]]

\* variant: the processed requests are not taken out of existing_requests
RemoveProcessedKeepsAll(reqs, processed_ids) == reqs

\* remove processed requests from existing_requests
RemoveProcessed(reqs, processed_ids) ==
    SelectSeq(reqs, LAMBDA r : r.id \notin processed_ids)

\* variant: the update stores the new responses in place of the old list
ExtendResponsesReplaces(resps, new) == new

\* existing_responses.extend(new_responses)
ExtendResponses(resps, new) == resps \o new

ProcessRequestEndBlock ==
    /\ exception = ""
    /\ round = "ProcessRequestRound"
    /\ CollectionFull
    /\ IF FailedRequestsAddRaises(collection)
       THEN /\ exception' = "TypeError"
            /\ UNCHANGED <<round, collection, requests, responses,
                           read_requests>>
       ELSE /\ \E new \in Orderings(NewResponsesSet(collection)) :
                 /\ requests' =
                      RemoveProcessed(
                          MarkFailed(requests,
                                     {f.id : f \in FailedRequests(collection)}),
                          RequestIds(new))
                 /\ responses' = ExtendResponses(responses, new)
            /\ round' = "SynchronizeRequestsRound"
            /\ collection' = EmptyCollection
            /\ read_requests' = NothingRead
            /\ UNCHANGED exception
    /\ UNCHANGED <<participants, not_merged, quota, stale_quota, failures>>
    /\ UNCHANGED not_cc

\* ---- ChatCompletionAbciApp
\* transition_function: per round, the events it has a transition for
transition_function ==
    [RegistrationRound |-> [done |-> "SynchronizeRequestsRound"],
     SynchronizeRequestsRound |->
        [done |-> "ProcessRequestRound",
         error |-> "SynchronizeRequestsRound"],
     ProcessRequestRound |->
        [done |-> "SynchronizeRequestsRound",
         error |-> "SynchronizeRequestsRound",
         round_timeout |-> "SynchronizeRequestsRound"]]

\* event_to_timeout: EventToTimeout = {}: no event has a timeout, so the
\* app has no action that ends a round on time
event_to_timeout == [e \in {} |-> 0]

Next ==
    \/ \E a \in Agents : RegistrationBehaviour(a)
    \/ RegistrationEndBlock
    \/ \E a \in Agents : SynchronizeRequestsBehaviour(a)
    \/ SynchronizeRequestsEndBlock
    \/ \E a \in Agents : ProcessRequestBehaviour(a)
    \/ ProcessRequestEndBlock

Spec == Init /\ [][Next]_vars

SpecDeep == InitDeep /\ [][Next]_vars

(***************************************************************************)
(* LLMChatCompletionAbciApp                                                *)
(*   rounds      packages/algovera/skills/chat_completion_fsm_app/rounds.py*)
(*   behaviours  .../chat_completion_fsm_app/behaviours.py                 *)
(*   queue       .../chat_completion_fsm_app/models.py (InteractRabbitMQ)  *)
(* A job of the request queue is its id; 0 stands for None.  The DRAND     *)
(* observation of an agent is one value of Randomness.                     *)
(***************************************************************************)
Randomness == 1..NumRandomness
Jobs == 1..NumJobs

RECURSIVE JobsFrom(_)
JobsFrom(k) == IF k > NumJobs THEN <<>> ELSE <<k>> \o JobsFrom(k + 1)

\* variant: ProcessRequestRound goes back to CollectRandomnessRound on DONE
LLMTransitionFunctionSkipsPublish ==
    [RegistrationRound |-> [done |-> "CollectRandomnessRound"],
     CollectRandomnessRound |->
        [done |-> "SelectKeeperRound",
         no_majority |-> "CollectRandomnessRound",
         round_timeout |-> "CollectRandomnessRound"],
     SelectKeeperRound |->
        [done |-> "WaitForRequestRound",
         no_majority |-> "RegistrationRound",
         round_timeout |-> "RegistrationRound"],
     WaitForRequestRound |->
        [done |-> "ProcessRequestRound", error |-> "RegistrationRound"],
     ProcessRequestRound |->
        [done |-> "CollectRandomnessRound", error |-> "RegistrationRound"],
     PublishResponseRound |->
        [done |-> "CollectRandomnessRound", error |-> "RegistrationRound"]]

\* the transition_function of LLMChatCompletionAbciApp
LLMTransitionFunction ==
    [RegistrationRound |-> [done |-> "CollectRandomnessRound"],
     CollectRandomnessRound |->
        [done |-> "SelectKeeperRound",
         no_majority |-> "CollectRandomnessRound",
         round_timeout |-> "CollectRandomnessRound"],
     SelectKeeperRound |->
        [done |-> "WaitForRequestRound",
         no_majority |-> "RegistrationRound",
         round_timeout |-> "RegistrationRound"],
     WaitForRequestRound |->
        [done |-> "ProcessRequestRound", error |-> "RegistrationRound"],
     ProcessRequestRound |->
        [done |-> "PublishResponseRound", error |-> "RegistrationRound"],
     PublishResponseRound |->
        [done |-> "CollectRandomnessRound", error |-> "RegistrationRound"]]

LLMRounds == DOMAIN LLMTransitionFunction

\* SharedState.setup gives Event.ROUND_TIMEOUT a timeout
LLMEventToTimeout == {"round_timeout"}

InitLLM ==
    /\ IdleCC
    /\ IdlePass
    /\ IdleHttp
    /\ IdleValory
    /\ IdleSlw
    /\ IdleGetData
    /\ IdleDedup
    /\ IdleSerializer
    /\ IdleDialogues
    /\ IdleBackoff
    /\ IdleConnections
    /\ llm_round = "RegistrationRound"
    /\ llm_submitted = EmptyCollection
    /\ llm_event = ""
    /\ llm_participants = <<>>
    /\ most_voted_randomness = 0
    /\ most_voted_keeper_address = 0
    /\ retries = [a \in Agents |-> 0]
    /\ interact_rabbitmq = [a \in Agents |-> [request |-> 0, response |-> 0]]
    /\ request_queue = JobsFrom(1)
    /\ response_queue = <<>>
    /\ queue_ops = [a \in Agents |-> {}]
    /\ mersenne \in [Randomness -> 0..(NumAgents - 1)]

\* the round ends with `event`: the next round starts with no payloads
LLMTransition(event) ==
    /\ llm_event' = event
    /\ llm_round' = LLMTransitionFunction[llm_round][event]
    /\ llm_submitted' = EmptyCollection
    /\ queue_ops' = [a \in Agents |-> {}]

LLMSend(a, payload) == llm_submitted' = (a :> payload) @@ llm_submitted

LLMAllSubmitted == DOMAIN llm_submitted = Agents

\* consensus threshold of the framework: ceil((2n + 1) / 3)
ConsensusThreshold(n) == (2 * n) \div 3 + 1

\* number of payloads of the round whose value is v
Votes(field, v) ==
    Cardinality({a \in DOMAIN llm_submitted : llm_submitted[a][field] = v})

VotedValues(field) == {llm_submitted[a][field] : a \in DOMAIN llm_submitted}

\* threshold_reached: some value has the votes of the consensus threshold
ThresholdReached(field) ==
    \E v \in VotedValues(field) :
        Votes(field, v) >= ConsensusThreshold(Len(llm_participants))

MostVotedPayload(field) ==
    CHOOSE v \in VotedValues(field) :
        Votes(field, v) >= ConsensusThreshold(Len(llm_participants))

\* is_majority_possible: the largest vote plus the votes still missing can
\* reach the threshold
IsMajorityPossible(field) ==
    LET n == Len(llm_participants)
        missing == n - Cardinality(DOMAIN llm_submitted)
    IN \/ (VotedValues(field) = {} /\ missing >= ConsensusThreshold(n))
       \/ \E v \in VotedValues(field) :
             Votes(field, v) + missing >= ConsensusThreshold(n)

\* ---- timeouts: a round with a ROUND_TIMEOUT transition ends on time
LLMRoundTimeout ==
    /\ llm_round \in LLMRounds
    /\ "round_timeout" \in DOMAIN LLMTransitionFunction[llm_round]
    /\ "round_timeout" \in LLMEventToTimeout
    /\ LLMTransition("round_timeout")
    /\ UNCHANGED <<llm_participants, most_voted_randomness,
                   most_voted_keeper_address, retries, interact_rabbitmq,
                   request_queue, response_queue, mersenne>>
    /\ UNCHANGED not_llm

\* ---- RegistrationRound
LLMRegistrationBehaviour(a) ==
    /\ llm_round = "RegistrationRound"
    /\ a \notin DOMAIN llm_submitted
    /\ LLMSend(a, [sender |-> a])
    /\ UNCHANGED <<llm_round, llm_event, llm_participants,
                   most_voted_randomness, most_voted_keeper_address, retries,
                   interact_rabbitmq, request_queue, response_queue,
                   queue_ops, mersenne>>
    /\ UNCHANGED not_llm

LLMRegistrationEndBlock ==
    /\ llm_round = "RegistrationRound"
    /\ LLMAllSubmitted
    /\ llm_participants' = SortedAgents(DOMAIN llm_submitted)
    /\ LLMTransition("done")
    /\ UNCHANGED <<most_voted_randomness, most_voted_keeper_address, retries,
                   interact_rabbitmq, request_queue, response_queue, mersenne>>
    /\ UNCHANGED not_llm

\* ---- CollectRandomnessRound
\* is_retries_exceeded(): the behaviour only waits for the round to end
RetriesExceeded(a) == retries[a] > MaxRetries

CollectRandomnessBehaviour(a) ==
    /\ llm_round = "CollectRandomnessRound"
    /\ a \notin DOMAIN llm_submitted
    /\ ~RetriesExceeded(a)
    /\ \/ \E r \in Randomness :
            /\ LLMSend(a, [sender |-> a, randomness |-> r])
            /\ UNCHANGED retries
       \/ /\ retries' = [retries EXCEPT ![a] = @ + 1]
          /\ UNCHANGED llm_submitted
    /\ UNCHANGED <<llm_round, llm_event, llm_participants,
                   most_voted_randomness, most_voted_keeper_address,
                   interact_rabbitmq, request_queue, response_queue,
                   queue_ops, mersenne>>
    /\ UNCHANGED not_llm

\* CollectSameUntilThresholdRound.end_block with selection_key
\* most_voted_randomness
CollectRandomnessEndBlock ==
    /\ llm_round = "CollectRandomnessRound"
    /\ IF ThresholdReached("randomness")
       THEN /\ most_voted_randomness' = MostVotedPayload("randomness")
            /\ LLMTransition("done")
       ELSE /\ ~IsMajorityPossible("randomness")
            /\ LLMTransition("no_majority")
            /\ UNCHANGED most_voted_randomness
    /\ UNCHANGED <<llm_participants, most_voted_keeper_address, retries,
                   interact_rabbitmq, request_queue, response_queue, mersenne>>
    /\ UNCHANGED not_llm

\* ---- SelectKeeperRound
\* variant: the participants are used in the order they are stored in
SortedKeepsOrder(parts) == parts

\* sorted(self.synchronized_data.participants)
Sorted(parts) == SortedAgents(Range(parts))

\* random.seed(randomness, 2); index = random.randint(0, len - 1):
\* the generator is a function of its seed
RandomIndex(randomness) == mersenne[randomness]

\* the keeper an agent computes when it iterates the participants in the
\* order `parts`
KeeperAddress(parts, randomness) ==
    Sorted(parts)[RandomIndex(randomness) + 1]

SelectKeeperBehaviour(a) ==
    /\ llm_round = "SelectKeeperRound"
    /\ a \notin DOMAIN llm_submitted
    /\ \E parts \in Orderings(Range(llm_participants)) :
          LLMSend(a, [sender |-> a,
                      keeper |-> KeeperAddress(parts, most_voted_randomness)])
    /\ UNCHANGED <<llm_round, llm_event, llm_participants,
                   most_voted_randomness, most_voted_keeper_address, retries,
                   interact_rabbitmq, request_queue, response_queue,
                   queue_ops, mersenne>>
    /\ UNCHANGED not_llm

SelectKeeperEndBlock ==
    /\ llm_round = "SelectKeeperRound"
    /\ IF ThresholdReached("keeper")
       THEN /\ most_voted_keeper_address' = MostVotedPayload("keeper")
            /\ LLMTransition("done")
       ELSE /\ ~IsMajorityPossible("keeper")
            /\ LLMTransition("no_majority")
            /\ UNCHANGED most_voted_keeper_address
    /\ UNCHANGED <<llm_participants, most_voted_randomness, retries,
                   interact_rabbitmq, request_queue, response_queue, mersenne>>
    /\ UNCHANGED not_llm

\* ---- the keeper rounds
\* variant: every agent takes itself for the keeper
IsKeeperAlways(a) == TRUE

\* self.context.agent_address == self.synchronized_data.most_voted_keeper_address
IsKeeper(a) == a = most_voted_keeper_address

QueueOp(a, op) == queue_ops' = [queue_ops EXCEPT ![a] = @ \cup {op}]

\* ---- WaitForRequestRound
\* the keeper blocks in wait_for_request() until the queue delivers a
\* request, the others send a payload without request_received_at
WaitForRequestBehaviour(a) ==
    /\ llm_round = "WaitForRequestRound"
    /\ a \notin DOMAIN llm_submitted
    /\ IF IsKeeper(a)
       THEN /\ request_queue # <<>>
            /\ interact_rabbitmq' =
                 [interact_rabbitmq EXCEPT ![a].request = Head(request_queue)]
            /\ request_queue' = Tail(request_queue)
            /\ QueueOp(a, "consume")
            /\ LLMSend(a, [sender |-> a, request_received_at |-> "time"])
       ELSE /\ LLMSend(a, [sender |-> a, request_received_at |-> "None"])
            /\ UNCHANGED <<interact_rabbitmq, request_queue, queue_ops>>
    /\ UNCHANGED <<llm_round, llm_event, llm_participants,
                   most_voted_randomness, most_voted_keeper_address, retries,
                   response_queue, mersenne>>
    /\ UNCHANGED not_llm

\* variant: the round ends on the first payload, whoever sent it
KeeperPayloadSetByAnyone == llm_submitted # EmptyCollection

\* OnlyKeeperSendsRound: the round keeps the payload of the keeper only
KeeperPayloadSet == most_voted_keeper_address \in DOMAIN llm_submitted

\* if self.keeper_payload is None: return None
WaitForRequestEndBlock ==
    /\ llm_round = "WaitForRequestRound"
    /\ KeeperPayloadSet
    /\ LLMTransition("done")
    /\ UNCHANGED <<llm_participants, most_voted_randomness,
                   most_voted_keeper_address, retries, interact_rabbitmq,
                   request_queue, response_queue, mersenne>>
    /\ UNCHANGED not_llm

\* ---- ProcessRequestRound
LLMProcessRequestBehaviour(a) ==
    /\ llm_round = "ProcessRequestRound"
    /\ a \notin DOMAIN llm_submitted
    /\ IF IsKeeper(a)
       THEN LET request == interact_rabbitmq[a].request IN
            /\ interact_rabbitmq' =
                 [interact_rabbitmq EXCEPT ![a].response = request]
            /\ LLMSend(a, [sender |-> a, request_id |-> request,
                           response |-> request])
       ELSE /\ LLMSend(a, [sender |-> a, request_id |-> 0, response |-> 0])
            /\ UNCHANGED interact_rabbitmq
    /\ UNCHANGED <<llm_round, llm_event, llm_participants,
                   most_voted_randomness, most_voted_keeper_address, retries,
                   request_queue, response_queue, queue_ops, mersenne>>
    /\ UNCHANGED not_llm

LLMProcessRequestEndBlock ==
    /\ llm_round = "ProcessRequestRound"
    /\ LLMAllSubmitted
    /\ LLMTransition("done")
    /\ UNCHANGED <<llm_participants, most_voted_randomness,
                   most_voted_keeper_address, retries, interact_rabbitmq,
                   request_queue, response_queue, mersenne>>
    /\ UNCHANGED not_llm

\* ---- PublishResponseRound
\* both branches send request_published_at = str(time.time())
PublishResponseBehaviour(a) ==
    /\ llm_round = "PublishResponseRound"
    /\ a \notin DOMAIN llm_submitted
    /\ IF IsKeeper(a)
       THEN /\ response_queue' =
                 Append(response_queue,
                        [id |-> interact_rabbitmq[a].request,
                         response |-> interact_rabbitmq[a].response])
            /\ QueueOp(a, "publish")
       ELSE UNCHANGED <<response_queue, queue_ops>>
    /\ LLMSend(a, [sender |-> a, request_published_at |-> "time"])
    /\ UNCHANGED <<llm_round, llm_event, llm_participants,
                   most_voted_randomness, most_voted_keeper_address, retries,
                   interact_rabbitmq, request_queue, mersenne>>
    /\ UNCHANGED not_llm

PublishResponseEndBlock ==
    /\ llm_round = "PublishResponseRound"
    /\ LLMAllSubmitted
    /\ LLMTransition("done")
    /\ UNCHANGED <<llm_participants, most_voted_randomness,
                   most_voted_keeper_address, retries, interact_rabbitmq,
                   request_queue, response_queue, mersenne>>
    /\ UNCHANGED not_llm

NextLLM ==
    \/ \E a \in Agents : LLMRegistrationBehaviour(a)
    \/ LLMRegistrationEndBlock
    \/ \E a \in Agents : CollectRandomnessBehaviour(a)
    \/ CollectRandomnessEndBlock
    \/ \E a \in Agents : SelectKeeperBehaviour(a)
    \/ SelectKeeperEndBlock
    \/ \E a \in Agents : WaitForRequestBehaviour(a)
    \/ WaitForRequestEndBlock
    \/ \E a \in Agents : LLMProcessRequestBehaviour(a)
    \/ LLMProcessRequestEndBlock
    \/ \E a \in Agents : PublishResponseBehaviour(a)
    \/ PublishResponseEndBlock
    \/ LLMRoundTimeout

SpecLLM == InitLLM /\ [][NextLLM]_vars

(***************************************************************************)
(* The partitioning pass of a SynchronizeRequestsRound, applied to any     *)
(* pending list and any list of participants, the empty one included.      *)
(***************************************************************************)
PassItems ==
    {[id |-> i, processor |-> q] : i \in Ids, q \in {NoProcessor} \cup Agents}

RECURSIVE ListsUpTo(_, _)
ListsUpTo(S, n) ==
    IF n = 0 THEN {<<>>}
    ELSE LET L == ListsUpTo(S, n - 1)
         IN L \cup {Append(l, x) : l \in {m \in L : Len(m) = n - 1}, x \in S}

InitPass ==
    /\ IdleCC
    /\ IdleLLM
    /\ IdleHttp
    /\ IdleValory
    /\ IdleSlw
    /\ IdleGetData
    /\ IdleDedup
    /\ IdleSerializer
    /\ IdleDialogues
    /\ IdleBackoff
    /\ IdleConnections
    /\ pass_pc = "input"
    /\ pass_pending \in ListsUpTo(PassItems, MaxPending)
    /\ pass_participants \in UNION {Orderings(S) : S \in SUBSET Agents}
    /\ pass_out = <<>>

\* i % num_participants, evaluated for an item with processor == "", raises
\* ZeroDivisionError when there are no participants
AssignRaises(s, parts) ==
    Len(parts) = 0 /\ \E k \in DOMAIN s : s[k].processor = NoProcessor

\* chat_completion_abci: for i, request in enumerate(existing_requests)
ChatCompletionPass ==
    /\ pass_pc = "input"
    /\ IF AssignRaises(pass_pending, pass_participants)
       THEN pass_pc' = "ZeroDivisionError" /\ UNCHANGED pass_out
       ELSE /\ pass_pc' = "done"
            /\ pass_out' = AssignProcessors(pass_pending, pass_participants)
    /\ UNCHANGED <<pass_pending, pass_participants>>
    /\ UNCHANGED not_pass

\* for participant in range(num_participants):
\*     try: unprocessed[participant]["processor"] = participants[participant]
\*     except IndexError: break
AssignFirstN(s, parts) ==
    [k \in DOMAIN s |->
        IF k <= Len(parts) THEN [s[k] EXCEPT !.processor = parts[k]] ELSE s[k]]

\* valory_chat_abci: the same pass over unprocessed_chat_requests
ValoryChatPass ==
    /\ pass_pc = "input"
    /\ pass_pc' = "done"
    /\ pass_out' = AssignFirstN(pass_pending, pass_participants)
    /\ UNCHANGED <<pass_pending, pass_participants>>
    /\ UNCHANGED not_pass

NextPass == ChatCompletionPass \/ ValoryChatPass

SpecPass == InitPass /\ [][NextPass]_vars

(***************************************************************************)
(* HttpHandler: POST /chat_completion and POST /chat.  A body is either    *)
(* not JSON or a JSON object; each key is missing or has a value.          *)
(***************************************************************************)
Missing == -1

EmptyString == 0

ContextIds == 1..NumContexts

BAD_REQUEST_CODE == 400

OK_CODE == 200

NotJson == [route |-> "any", is_json |-> FALSE]

ChatCompletionBodies ==
    [route : {"chat_completion"}, is_json : {TRUE},
     id : {Missing} \cup Ids,
     system_message : {Missing, 1},
     user_message : {Missing, 1}]

ChatBodies ==
    [route : {"chat"}, is_json : {TRUE},
     id : {Missing} \cup Ids,
     context_id : {Missing, EmptyString} \cup ContextIds,
     memory_id : {Missing} \cup ContextIds,
     question : {Missing, 1}]

InitHttp ==
    /\ IdleCC
    /\ IdleLLM
    /\ IdlePass
    /\ IdleValory
    /\ IdleSlw
    /\ IdleGetData
    /\ IdleDedup
    /\ IdleSerializer
    /\ IdleDialogues
    /\ IdleBackoff
    /\ IdleConnections
    /\ http_msg = <<>>
    /\ new_chat_requests = <<>>
    /\ outbox = <<>>
    /\ handler_exception = ""
    /\ store_embeddings \in SUBSET ContextIds
    /\ store_chat_histories \in SUBSET ContextIds
    /\ store_attributes \in BOOLEAN

\* messages handled so far
Handled == Len(outbox) + (IF handler_exception = "" THEN 0 ELSE 1)

\* json.loads(http_msg.body) raised, or a subscript or attribute access did
Raise(body, name) ==
    /\ http_msg' = body
    /\ handler_exception' = name
    /\ UNCHANGED <<new_chat_requests, outbox>>

_handle_bad_request(body) ==
    /\ http_msg' = body
    /\ outbox' = Append(outbox, BAD_REQUEST_CODE)
    /\ handler_exception' = ""
    /\ UNCHANGED new_chat_requests

_send_ok_response(body) ==
    /\ http_msg' = body
    /\ outbox' = Append(outbox, OK_CODE)
    /\ handler_exception' = ""

\* ChatCompletion.parse_obj: id, system_message and user_message are required
ChatCompletionParses(body) ==
    /\ body.id # Missing
    /\ body.system_message # Missing
    /\ body.user_message # Missing

\* Chat.parse_obj: id, context_id, memory_id and question are required; the
\* handler has read context_id and filled memory_id in before it parses
ChatParses(body) ==
    /\ body.id # Missing
    /\ body.question # Missing

_handle_post_chat_completion ==
    /\ Handled < MaxPosts
    /\ handler_exception = ""
    /\ \E body \in ChatCompletionBodies \cup {NotJson} :
        IF ~body.is_json
        THEN Raise(body, "JSONDecodeError")
        ELSE IF ~ChatCompletionParses(body)
        THEN _handle_bad_request(body)
        ELSE /\ new_chat_requests' = Append(new_chat_requests,
                    [id |-> body.id, request_type |-> "chat_completion"])
             /\ _send_ok_response(body)
    /\ UNCHANGED <<store_embeddings, store_chat_histories, store_attributes>>
    /\ UNCHANGED not_http

_handle_post_chat ==
    /\ Handled < MaxPosts
    /\ handler_exception = ""
    /\ \E body \in ChatBodies \cup {NotJson} :
        IF ~body.is_json
        THEN Raise(body, "JSONDecodeError")
        ELSE IF body.context_id = Missing
        THEN Raise(body, "KeyError")
        ELSE IF body.context_id = EmptyString
        THEN _handle_bad_request(body)
        ELSE IF ~store_attributes
        THEN Raise(body, "AttributeError")
        ELSE IF body.context_id \notin store_embeddings
        THEN _handle_bad_request(body)
        ELSE IF body.memory_id # Missing /\ body.memory_id \notin store_chat_histories
        THEN _handle_bad_request(body)
        ELSE IF ~ChatParses(body)
        THEN _handle_bad_request(body)
        ELSE /\ new_chat_requests' = Append(new_chat_requests,
                    [id |-> body.id, request_type |-> "chat"])
             /\ _send_ok_response(body)
    /\ UNCHANGED <<store_embeddings, store_chat_histories, store_attributes>>
    /\ UNCHANGED not_http

NextHttp == _handle_post_chat_completion \/ _handle_post_chat

SpecHttp == InitHttp /\ [][NextHttp]_vars

(***************************************************************************)
(* ValoryChatAbciApp: SynchronizeEmbeddingsRound, EmbeddingRound,          *)
(* SynchronizeRequestsRound and ChatRound.  A payload is the list of       *)
(* items its JSON text holds; the empty text is the empty list.            *)
(***************************************************************************)
ValoryTransitionFunction ==
    [SynchronizeEmbeddingsRound |->
        [embedding |-> "EmbeddingRound",
         no_request |-> "SynchronizeRequestsRound",
         round_timeout |-> "SynchronizeRequestsRound"],
     EmbeddingRound |->
        [done |-> "SynchronizeRequestsRound",
         error |-> "SynchronizeRequestsRound"],
     SynchronizeRequestsRound |->
        [chat |-> "ChatRound",
         no_request |-> "SynchronizeEmbeddingsRound",
         round_timeout |-> "SynchronizeEmbeddingsRound"],
     ChatRound |->
        [done |-> "FinishedValoryChatRound",
         error |-> "SynchronizeEmbeddingsRound"]]

NoLocalRequests == [a \in Agents |-> <<>>]

NoHistories == [m \in {} |-> 0]

InitValory ==
    /\ IdleCC
    /\ IdleLLM
    /\ IdlePass
    /\ IdleHttp
    /\ IdleSlw
    /\ IdleGetData
    /\ IdleDedup
    /\ IdleSerializer
    /\ IdleDialogues
    /\ IdleBackoff
    /\ IdleConnections
    /\ v_round = "SynchronizeEmbeddingsRound"
    /\ v_collection = <<>>
    /\ chats = <<>>
    /\ embedding = <<>>
    /\ chat_histories = NoHistories
    /\ state_new_chat_requests = NoLocalRequests
    /\ state_new_embedding_requests = NoLocalRequests
    /\ v_quota = NumArrivals
    /\ v_exception = ""

Senders == {v_collection[k].sender : k \in DOMAIN v_collection}

\* request_time: default_factory=get_time, the time the request arrived
Clock == NumArrivals - v_quota + 1

\* the handler appends a request that met the schema to the agent's list;
\* an agent that has sent its payload reads the list in a later round only
NewChatRequest(a) ==
    /\ v_round \in DOMAIN ValoryTransitionFunction
    /\ v_exception = ""
    /\ a \notin Senders
    /\ v_quota > 0
    /\ \E i \in 1..NumArrivals, m \in ContextIds :
         state_new_chat_requests' =
            [state_new_chat_requests EXCEPT ![a] = Append(@,
                [id |-> i, request_time |-> Clock, processed |-> FALSE,
                 processor |-> NoProcessor, memory_id |-> m,
                 chat_history |-> 0])]
    /\ v_quota' = v_quota - 1
    /\ UNCHANGED <<v_round, v_collection, chats, embedding, chat_histories,
                   state_new_embedding_requests, v_exception>>
    /\ UNCHANGED not_valory

NewEmbeddingRequest(a) ==
    /\ v_round \in DOMAIN ValoryTransitionFunction
    /\ v_exception = ""
    /\ a \notin Senders
    /\ v_quota > 0
    /\ \E i \in 1..NumArrivals :
         state_new_embedding_requests' =
            [state_new_embedding_requests EXCEPT ![a] = Append(@,
                [id |-> i, request_time |-> Clock, processed |-> FALSE,
                 processor |-> NoProcessor])]
    /\ v_quota' = v_quota - 1
    /\ UNCHANGED <<v_round, v_collection, chats, embedding, chat_histories,
                   state_new_chat_requests, v_exception>>
    /\ UNCHANGED not_valory

\* send_a2a_transaction(payload): one payload per sender and round
ValorySend(a, round_id, items) ==
    /\ v_exception = ""
    /\ v_round = round_id
    /\ a \notin Senders
    /\ v_collection' = Append(v_collection, [sender |-> a, json |-> items])

\* the round ends with `event`
ValoryTransition(event) ==
    /\ v_round' = ValoryTransitionFunction[v_round][event]
    /\ v_collection' = <<>>

\* len(self.collection) == len(self.synchronized_data.all_participants)
ValoryCollectionFull == AllSubmitted(Len(v_collection))

RECURSIVE PayloadItems(_)
\* the items of all payloads, in the order of self.collection.values()
PayloadItems(coll) ==
    IF coll = <<>> THEN <<>>
    ELSE coll[1].json \o PayloadItems(Tail(coll))

\* item.get("id"): None where the item has no id
ItemId(item) == IF "id" \in DOMAIN item THEN item.id ELSE Missing

HasId(item) == ItemId(item) # Missing

RECURSIVE remove_duplicates(_)
\* variant: every item with an id is kept
remove_duplicates_keeps_all(lst) == SelectSeq(lst, HasId)

\* the first item of each id, in the order of lst; items without id dropped
remove_duplicates(lst) ==
    IF lst = <<>> THEN <<>>
    ELSE LET front == remove_duplicates(SubSeq(lst, 1, Len(lst) - 1))
             item == lst[Len(lst)]
         IN IF HasId(item)
               /\ ~\E k \in DOMAIN front : ItemId(front[k]) = ItemId(item)
            THEN Append(front, item)
            ELSE front

\* an item of the store together with its position there (0: a new item)
Tagged(item, i) == item @@ ("src" :> i)

Untagged(item) == [f \in DOMAIN item \ {"src"} |-> item[f]]

\* [each for each in all_requests if not each["processed"]], each with its
\* position in all_requests
Unprocessed(all) ==
    LET tagged == [i \in DOMAIN all |-> Tagged(all[i], i)]
    IN SelectSeq(tagged, LAMBDA r : ~r.processed)

\* the list a Synchronize round writes: the pending items (unprocessed and
\* new) are sorted, the first len(parts) of them get a processor, and the
\* pending items are appended to all_requests; an unprocessed item of
\* all_requests is the same dict as its pending item
Synchronized(all, new, parts) ==
    LET pending ==
            SortByTime(Unprocessed(all)
                       \o [k \in DOMAIN new |-> Tagged(new[k], 0)])
        assigned == AssignFirstN(pending, parts)
        merged == [i \in DOMAIN all |->
            IF \E k \in DOMAIN assigned : assigned[k].src = i
            THEN Untagged(assigned[CHOOSE k \in DOMAIN assigned :
                                        assigned[k].src = i])
            ELSE all[i]]
    IN merged \o [k \in DOMAIN assigned |-> Untagged(assigned[k])]

\* ROUND_TIMEOUT, for the rounds whose transitions have it
ValoryRoundTimeout ==
    /\ v_exception = ""
    /\ v_round \in {"SynchronizeEmbeddingsRound", "SynchronizeRequestsRound"}
    /\ ValoryTransition("round_timeout")
    /\ UNCHANGED <<chats, embedding, chat_histories, state_new_chat_requests,
                   state_new_embedding_requests, v_quota, v_exception>>
    /\ UNCHANGED not_valory

\* ---- SynchronizeEmbeddingsRound
SynchronizeEmbeddingsBehaviour(a) ==
    /\ ValorySend(a, "SynchronizeEmbeddingsRound",
                  state_new_embedding_requests[a])
    /\ state_new_embedding_requests' =
            [state_new_embedding_requests EXCEPT ![a] = <<>>]
    /\ UNCHANGED <<v_round, chats, embedding, chat_histories,
                   state_new_chat_requests, v_quota, v_exception>>
    /\ UNCHANGED not_valory

SynchronizeEmbeddingsEndBlock ==
    /\ v_exception = ""
    /\ v_round = "SynchronizeEmbeddingsRound"
    /\ ValoryCollectionFull
    /\ LET new == PayloadItems(v_collection)
       IN IF Unprocessed(embedding) \o new # <<>>
          THEN /\ \E parts \in Orderings(Agents) :
                    embedding' = Synchronized(embedding, new, parts)
               /\ ValoryTransition("embedding")
          ELSE /\ UNCHANGED embedding
               /\ ValoryTransition("no_request")
    /\ UNCHANGED <<chats, chat_histories, state_new_chat_requests,
                   state_new_embedding_requests, v_quota, v_exception>>
    /\ UNCHANGED not_valory

\* ---- EmbeddingRound
\* next(request for request in requests
\*      if request["processed"] == False and request["processor"] == a)
MyRequest(reqs, a) ==
    LET mine == SelectSeq(reqs,
                          LAMBDA r : ~r.processed /\ r.processor = a)
    IN IF mine = <<>> THEN <<>> ELSE <<mine[1]>>

EmbeddingBehaviour(a) ==
    /\ LET request == MyRequest(embedding, a)
       IN ValorySend(a, "EmbeddingRound",
            IF request = <<>> THEN <<>>
            ELSE <<[request[1] EXCEPT !.processed = TRUE, !.processor = a]>>)
    /\ UNCHANGED <<v_round, chats, embedding, chat_histories,
                   state_new_chat_requests, state_new_embedding_requests,
                   v_quota, v_exception>>
    /\ UNCHANGED not_valory

\* for each in processed_embeddings:
\*     for i, embed in enumerate(embedding): embedding[i] = each
ReplaceEvery(all, processed) ==
    IF processed = <<>> THEN all
    ELSE [i \in DOMAIN all |-> processed[Len(processed)]]

EmbeddingEndBlock ==
    /\ v_exception = ""
    /\ v_round = "EmbeddingRound"
    /\ ValoryCollectionFull
    /\ embedding' = ReplaceEvery(embedding, PayloadItems(v_collection))
    /\ ValoryTransition("done")
    /\ UNCHANGED <<chats, chat_histories, state_new_chat_requests,
                   state_new_embedding_requests, v_quota, v_exception>>
    /\ UNCHANGED not_valory

\* ---- SynchronizeRequestsRound
ValorySynchronizeRequestsBehaviour(a) ==
    /\ ValorySend(a, "SynchronizeRequestsRound", state_new_chat_requests[a])
    /\ state_new_chat_requests' = [state_new_chat_requests EXCEPT ![a] = <<>>]
    /\ UNCHANGED <<v_round, chats, embedding, chat_histories,
                   state_new_embedding_requests, v_quota, v_exception>>
    /\ UNCHANGED not_valory

\* variant: the requests of all payloads, repeated ids kept
CollectedChatRequestsKeepsAll(coll) == PayloadItems(coll)

\* new_chat_requests: the requests of all payloads without duplicates
CollectedChatRequests(coll) == remove_duplicates(PayloadItems(coll))

ValorySynchronizeRequestsEndBlock ==
    /\ v_exception = ""
    /\ v_round = "SynchronizeRequestsRound"
    /\ ValoryCollectionFull
    /\ LET new == CollectedChatRequests(v_collection)
       IN IF Unprocessed(chats) \o new # <<>>
          THEN /\ \E parts \in Orderings(Agents) :
                    chats' = Synchronized(chats, new, parts)
               /\ ValoryTransition("chat")
          ELSE /\ UNCHANGED chats
               /\ ValoryTransition("no_request")
    /\ UNCHANGED <<embedding, chat_histories, state_new_chat_requests,
                   state_new_embedding_requests, v_quota, v_exception>>
    /\ UNCHANGED not_valory

\* ---- ChatRound
\* prepare_chat: self.synchronized_data.chat_histories[memory_id], [] on
\* KeyError
History(m) == IF m \in DOMAIN chat_histories THEN chat_histories[m] ELSE 0

\* process_response: the answer extends the history; an error leaves the
\* request's own chat_history
ProcessedChat(request, a, ok) ==
    [request EXCEPT !.processed = TRUE, !.processor = a,
                    !.chat_history =
                        IF ok THEN History(request.memory_id) + 1 ELSE @]

ChatBehaviour(a) ==
    /\ v_exception = ""
    /\ v_round = "ChatRound"
    /\ a \notin Senders
    /\ LET request == MyRequest(chats, a)
       IN IF request = <<>>
          THEN /\ ValorySend(a, "ChatRound", <<>>)
               /\ UNCHANGED v_exception
          ELSE IF embedding = <<>>
          THEN \* self.synchronized_data.embedding[0]
               /\ v_exception' = "IndexError"
               /\ UNCHANGED v_collection
          ELSE /\ \E ok \in BOOLEAN :
                    ValorySend(a, "ChatRound",
                               <<ProcessedChat(request[1], a, ok)>>)
               /\ UNCHANGED v_exception
    /\ UNCHANGED <<v_round, chats, embedding, chat_histories,
                   state_new_chat_requests, state_new_embedding_requests,
                   v_quota>>
    /\ UNCHANGED not_valory

\* for each in processed_chat: for i, chat in enumerate(all_chats):
\*     if chat["id"] == each["id"]: all_chats[i] = each
ReplaceById(all, processed) ==
    [i \in DOMAIN all |->
        IF \E k \in DOMAIN processed : processed[k].id = all[i].id
        THEN processed[CHOOSE k \in DOMAIN processed :
                            processed[k].id = all[i].id]
        ELSE all[i]]

\* all_chat_histories[each["memory_id"]] = each["chat_history"], in order
WithHistories(histories, processed) ==
    LET memories == {processed[k].memory_id : k \in DOMAIN processed}
        latest(m) == CHOOSE k \in DOMAIN processed :
            /\ processed[k].memory_id = m
            /\ \A j \in DOMAIN processed :
                    processed[j].memory_id = m => j <= k
    IN [m \in DOMAIN histories \cup memories |->
            IF m \in memories THEN processed[latest(m)].chat_history
            ELSE histories[m]]

ChatEndBlock ==
    /\ v_exception = ""
    /\ v_round = "ChatRound"
    /\ ValoryCollectionFull
    /\ LET processed == remove_duplicates(PayloadItems(v_collection))
       IN /\ chats' = remove_duplicates(ReplaceById(chats, processed))
          /\ chat_histories' = WithHistories(chat_histories, processed)
    /\ ValoryTransition("done")
    /\ UNCHANGED <<embedding, state_new_chat_requests,
                   state_new_embedding_requests, v_quota, v_exception>>
    /\ UNCHANGED not_valory

NextValory ==
    \/ \E a \in Agents : NewChatRequest(a)
    \/ \E a \in Agents : NewEmbeddingRequest(a)
    \/ ValoryRoundTimeout
    \/ \E a \in Agents : SynchronizeEmbeddingsBehaviour(a)
    \/ SynchronizeEmbeddingsEndBlock
    \/ \E a \in Agents : EmbeddingBehaviour(a)
    \/ EmbeddingEndBlock
    \/ \E a \in Agents : ValorySynchronizeRequestsBehaviour(a)
    \/ ValorySynchronizeRequestsEndBlock
    \/ \E a \in Agents : ChatBehaviour(a)
    \/ ChatEndBlock

SpecValory == InitValory /\ [][NextValory]_vars

\* ValoryChatChainedAbciApp: FinishedValoryChatRound leads to the reset round
\* and from there to SynchronizeEmbeddingsRound again; the new period keeps
\* the cross_period_persisted_keys of the app, which are none
ValoryNewPeriod ==
    /\ v_exception = ""
    /\ v_round = "FinishedValoryChatRound"
    /\ v_round' = "SynchronizeEmbeddingsRound"
    /\ v_collection' = <<>>
    /\ chats' = <<>>
    /\ embedding' = <<>>
    /\ chat_histories' = NoHistories
    /\ UNCHANGED <<state_new_chat_requests, state_new_embedding_requests,
                   v_quota, v_exception>>
    /\ UNCHANGED not_valory

\* the stores that hold one chat of an earlier SynchronizeRequestsRound and
\* ChatRound: processed by its processor, or still waiting for one
StoredChats ==
    {<<[id |-> i, request_time |-> 0, processed |-> p # NoProcessor,
        processor |-> p, memory_id |-> m, chat_history |-> 0]>> :
        i \in 1..NumArrivals, p \in {NoProcessor} \cup Agents,
        m \in ContextIds}

\* ValoryChatAbciApp started on a store that holds a chat
InitValoryStore ==
    /\ IdleCC
    /\ IdleLLM
    /\ IdlePass
    /\ IdleHttp
    /\ IdleSlw
    /\ IdleGetData
    /\ IdleDedup
    /\ IdleSerializer
    /\ IdleDialogues
    /\ IdleBackoff
    /\ IdleConnections
    /\ v_round = "SynchronizeEmbeddingsRound"
    /\ v_collection = <<>>
    /\ chats \in StoredChats
    /\ embedding = <<>>
    /\ chat_histories = NoHistories
    /\ state_new_chat_requests = NoLocalRequests
    /\ state_new_embedding_requests = NoLocalRequests
    /\ v_quota = NumArrivals
    /\ v_exception = ""

SpecValoryStore == InitValoryStore /\ [][NextValory]_vars

\* ValoryChatAbciApp after an EmbeddingRound that ended with DONE: the
\* store holds the processed embedding and SynchronizeRequestsRound begins
InitValoryEmbedded ==
    /\ IdleCC
    /\ IdleLLM
    /\ IdlePass
    /\ IdleHttp
    /\ IdleSlw
    /\ IdleGetData
    /\ IdleDedup
    /\ IdleSerializer
    /\ IdleDialogues
    /\ IdleBackoff
    /\ IdleConnections
    /\ v_round = "SynchronizeRequestsRound"
    /\ v_collection = <<>>
    /\ chats = <<>>
    /\ \E p \in Agents :
         embedding = <<[id |-> 1, request_time |-> 0, processed |-> TRUE,
                        processor |-> p]>>
    /\ chat_histories = NoHistories
    /\ state_new_chat_requests = NoLocalRequests
    /\ state_new_embedding_requests = NoLocalRequests
    /\ v_quota = NumArrivals
    /\ v_exception = ""

SpecValoryEmbedded == InitValoryEmbedded /\ [][NextValory]_vars

\* ValoryChatAbciApp run period after period
SpecValoryPeriods == InitValory /\ [][NextValory \/ ValoryNewPeriod]_vars

\* A behaviour sends its payload and a full round ends.  In the rounds
\* that a ROUND_TIMEOUT can end, a behaviour that can send again and again
\* does send, and a round that is full again and again does end.  A
\* ROUND_TIMEOUT and the arrival of a request may happen or not.
ValoryFairness ==
    /\ \A a \in Agents :
          /\ SF_vars(SynchronizeEmbeddingsBehaviour(a))
          /\ SF_vars(ValorySynchronizeRequestsBehaviour(a))
          /\ WF_vars(EmbeddingBehaviour(a))
          /\ WF_vars(ChatBehaviour(a))
    /\ SF_vars(SynchronizeEmbeddingsEndBlock)
    /\ SF_vars(ValorySynchronizeRequestsEndBlock)
    /\ WF_vars(EmbeddingEndBlock)
    /\ WF_vars(ChatEndBlock)
    /\ WF_vars(ValoryNewPeriod)

SpecValoryLive == SpecValoryPeriods /\ ValoryFairness

\* ChatCompletionAbciApp with more requests than agents, each with an id
\* of its own and a first try.  The handlers' clocks are not in step: the
\* request_time of a later request can be below that of an earlier one,
\* so a new request can be sorted in front of one that still waits.
ArrivalTime(id) == ((id - 1) % NumTimes) + 1

\* the k requests the handlers of one agent accepted since its last payload
FreshBatches(q) ==
    LET first == LiveRequests - q IN
    {{NewRequest(first + j, ArrivalTime(first + j), 0) : j \in 1..k} :
        k \in 0..Min(MaxBatch, q)}

InitLive ==
    /\ InitStore
    /\ quota = LiveRequests
    /\ stale_quota = 0

SynchronizeFreshRequestsBehaviour(a) ==
    /\ exception = ""
    /\ round = "SynchronizeRequestsRound"
    /\ a \notin DOMAIN collection
    /\ \E batch \in FreshBatches(quota) :
         /\ quota' = quota - Cardinality(batch)
         /\ collection' =
              (a :> [sender |-> a, new_requests |-> batch]) @@ collection
    /\ UNCHANGED <<round, participants, requests, responses, not_merged,
                   exception, stale_quota, failures, read_requests>>
    /\ UNCHANGED not_cc

NextLive ==
    \/ \E a \in Agents : RegistrationBehaviour(a)
    \/ RegistrationEndBlock
    \/ \E a \in Agents : SynchronizeFreshRequestsBehaviour(a)
    \/ SynchronizeRequestsEndBlock
    \/ \E a \in Agents : ProcessRequestBehaviour(a)
    \/ ProcessRequestEndBlock

\* every behaviour sends its payload and every full round ends: the app
\* has no timeout, and a request arrives as part of a behaviour's payload
SpecLive == InitLive /\ [][NextLive]_vars /\ WF_vars(NextLive)

\* ChatCompletionAbciApp with a short run of fresh requests
InitCollect ==
    /\ InitStore
    /\ quota = CollectRequests
    /\ stale_quota = 0

\* the collect-until-all rounds of ChatCompletionAbciApp and ValoryChatAbciApp
SpecCollect == (InitCollect \/ InitValory) /\ [][Next \/ NextValory]_vars

(***************************************************************************)
(* SlwWorldAbciApp: Registration, SelectKeeper, GetData, ProcessData,      *)
(* PrintResult and ResetAndPause.  Each agent runs one behaviour at a      *)
(* time: it sends its payload ("act"), waits until the round has ended     *)
(* ("wait"), sets its done flag ("done") and is given the behaviour that   *)
(* matches the round then open.  A round ends only when every agent has    *)
(* been given the behaviour of that round.                                 *)
(***************************************************************************)
SlwTransitionFunctionDoneSkips ==
    [GetDataRound |->
        [done |-> "PrintResultRound",
         round_timeout |-> "RegistrationRound",
         no_majority |-> "GetDataRound"],
     ProcessDataRound |->
        [done |-> "PrintResultRound",
         round_timeout |-> "RegistrationRound"],
     PrintResultRound |->
        [done |-> "ResetAndPauseRound",
         round_timeout |-> "RegistrationRound"],
     RegistrationRound |-> [done |-> "SelectKeeperRound"],
     ResetAndPauseRound |->
        [done |-> "RegistrationRound",
         no_majority |-> "RegistrationRound",
         reset_timeout |-> "RegistrationRound"],
     SelectKeeperRound |->
        [done |-> "GetDataRound",
         no_majority |-> "RegistrationRound",
         round_timeout |-> "RegistrationRound"]]

SlwTransitionFunction ==
    [GetDataRound |->
        [done |-> "ProcessDataRound",
         round_timeout |-> "RegistrationRound",
         no_majority |-> "GetDataRound"],
     ProcessDataRound |->
        [done |-> "PrintResultRound",
         round_timeout |-> "RegistrationRound"],
     PrintResultRound |->
        [done |-> "ResetAndPauseRound",
         round_timeout |-> "RegistrationRound"],
     RegistrationRound |-> [done |-> "SelectKeeperRound"],
     ResetAndPauseRound |->
        [done |-> "RegistrationRound",
         no_majority |-> "RegistrationRound",
         reset_timeout |-> "RegistrationRound"],
     SelectKeeperRound |->
        [done |-> "GetDataRound",
         no_majority |-> "RegistrationRound",
         round_timeout |-> "RegistrationRound"]]

\* behaviour_id -> matching_round
matching_round ==
    [registration |-> "RegistrationRound",
     select_keeper |-> "SelectKeeperRound",
     get_data |-> "GetDataRound",
     process_data |-> "ProcessDataRound",
     print_result |-> "PrintResultRound",
     reset_and_pause |-> "ResetAndPauseRound"]

BehaviourOf(r) == CHOOSE b \in DOMAIN matching_round : matching_round[b] = r

\* the integers random.org answers with
RandomValues == 1..RANDOM_MAX

InitSlw ==
    /\ IdleCC
    /\ IdleLLM
    /\ IdlePass
    /\ IdleHttp
    /\ IdleValory
    /\ IdleGetData
    /\ IdleDedup
    /\ IdleSerializer
    /\ IdleDialogues
    /\ IdleBackoff
    /\ IdleConnections
    /\ slw_round = "RegistrationRound"
    /\ slw_event = ""
    /\ slw_collection = EmptyCollection
    /\ slw_order = <<>>
    /\ slw_participants = <<>>
    /\ init_data = 0
    /\ processed_data = 0
    /\ printed_data = 0
    /\ slw_keeper = 0
    /\ period_count = 0
    /\ slw_agent = [a \in Agents |->
            [behaviour |-> "registration", fresh |-> TRUE, pc |-> "act",
             sent |-> FALSE]]

\* variant: every payload counts for every value
VotesForAll(coll, v) == Cardinality(DOMAIN coll)

\* number of payloads of coll whose value is v
VotesFor(coll, v) == Cardinality({a \in DOMAIN coll : coll[a] = v})

\* threshold_reached
SlwThresholdReached(coll, n) ==
    \E v \in Range(coll) : VotesFor(coll, v) >= ConsensusThreshold(n)

\* most_voted_payload
SlwMostVotedPayload(coll, n) ==
    CHOOSE v \in Range(coll) : VotesFor(coll, v) >= ConsensusThreshold(n)

\* is_majority_possible(self.collection, nb_participants)
SlwIsMajorityPossible(coll, n) ==
    LET missing == n - Cardinality(DOMAIN coll)
    IN \/ (DOMAIN coll = {} /\ n > 0)
       \/ \E v \in Range(coll) :
             VotesFor(coll, v) + missing >= ConsensusThreshold(n)

nb_participants == Len(slw_participants)

\* send_a2a_transaction(payload) of behaviour b; a payload for a round that
\* has ended is not collected; has_payload is FALSE where the behaviour
\* sends nothing
SlwSend(a, b, has_payload, value) ==
    /\ slw_agent[a].behaviour = b
    /\ slw_agent[a].pc = "act"
    /\ slw_agent' = [slw_agent EXCEPT ![a].pc = "wait",
                                      ![a].sent = has_payload]
    /\ IF has_payload /\ slw_agent[a].fresh /\ a \notin DOMAIN slw_collection
       THEN slw_collection' = (a :> value) @@ slw_collection
       ELSE UNCHANGED slw_collection

\* wait_until_round_end() has returned: self.set_done()
SlwSetDone(a) ==
    /\ slw_agent[a].pc = "wait"
    /\ ~slw_agent[a].fresh
    /\ slw_agent' = [slw_agent EXCEPT ![a].pc = "done"]
    /\ UNCHANGED <<slw_round, slw_event, slw_collection, slw_order,
                   slw_participants, init_data, processed_data, printed_data,
                   slw_keeper, period_count>>
    /\ UNCHANGED not_slw

\* the agent is given the behaviour whose matching_round is the open round
SlwNextBehaviour(a) ==
    /\ slw_agent[a].pc = "done"
    /\ slw_agent' = [slw_agent EXCEPT ![a] =
            [behaviour |-> BehaviourOf(slw_round), fresh |-> TRUE,
             pc |-> "act", sent |-> FALSE]]
    /\ UNCHANGED <<slw_round, slw_event, slw_collection, slw_order,
                   slw_participants, init_data, processed_data, printed_data,
                   slw_keeper, period_count>>
    /\ UNCHANGED not_slw

\* every agent runs the behaviour of the open round
AllScheduled == \A a \in Agents : slw_agent[a].fresh

\* the round ends with `event`
SlwEndRound(event) ==
    /\ AllScheduled
    /\ slw_round' = SlwTransitionFunction[slw_round][event]
    /\ slw_event' = event
    /\ slw_collection' = EmptyCollection
    /\ slw_order' = <<>>
    /\ slw_agent' = [a \in Agents |-> [slw_agent[a] EXCEPT !.fresh = FALSE]]

\* ---- RegistrationRound
SlwRegistrationBehaviour(a) ==
    /\ SlwSend(a, "registration", TRUE, a)
    /\ slw_order' = IF slw_agent[a].fresh /\ a \notin DOMAIN slw_collection
                    THEN Append(slw_order, a) ELSE slw_order
    /\ UNCHANGED <<slw_round, slw_event, slw_participants, init_data,
                   processed_data, printed_data, slw_keeper, period_count>>
    /\ UNCHANGED not_slw

\* participants=self.collection: the senders as the collection holds them
SlwRegistrationEndBlock ==
    /\ slw_round = "RegistrationRound"
    /\ AllSubmitted(Cardinality(DOMAIN slw_collection))
    /\ slw_participants' = slw_order
    /\ SlwEndRound("done")
    /\ UNCHANGED <<init_data, processed_data, printed_data, slw_keeper,
                   period_count>>
    /\ UNCHANGED not_slw

\* ---- SelectKeeperRound
SlwSelectKeeperBehaviour(a) ==
    /\ SlwSend(a, "select_keeper", TRUE,
               SortedAgents(Range(slw_participants))
                    [(period_count % nb_participants) + 1])
    /\ UNCHANGED <<slw_round, slw_event, slw_order, slw_participants,
                   init_data, processed_data, printed_data, slw_keeper,
                   period_count>>
    /\ UNCHANGED not_slw

SlwSelectKeeperEndBlock ==
    /\ slw_round = "SelectKeeperRound"
    /\ IF SlwThresholdReached(slw_collection, nb_participants)
       THEN /\ slw_keeper' =
                    SlwMostVotedPayload(slw_collection, nb_participants)
            /\ SlwEndRound("done")
       ELSE /\ ~SlwIsMajorityPossible(slw_collection, nb_participants)
            /\ UNCHANGED slw_keeper
            /\ SlwEndRound("no_majority")
    /\ UNCHANGED <<slw_participants, init_data, processed_data, printed_data,
                   period_count>>
    /\ UNCHANGED not_slw

\* ---- GetDataRound
GetDataBehaviour(a) ==
    /\ \E data \in RandomValues : SlwSend(a, "get_data", TRUE, data)
    /\ UNCHANGED <<slw_round, slw_event, slw_order, slw_participants,
                   init_data, processed_data, printed_data, slw_keeper,
                   period_count>>
    /\ UNCHANGED not_slw

\* the result of GetDataRound.end_block for a collection of n participants:
\* <<event, init_data>>, or <<>> for None
GetDataResult(coll, n, old) ==
    IF SlwThresholdReached(coll, n)
    THEN <<"done", SlwMostVotedPayload(coll, n)>>
    ELSE IF ~SlwIsMajorityPossible(coll, n)
    THEN <<"no_majority", old>>
    ELSE <<>>

GetDataEndBlock ==
    /\ slw_round = "GetDataRound"
    /\ LET result == GetDataResult(slw_collection, nb_participants, init_data)
       IN /\ result # <<>>
          /\ init_data' = result[2]
          /\ SlwEndRound(result[1])
    /\ UNCHANGED <<slw_participants, processed_data, printed_data, slw_keeper,
                   period_count>>
    /\ UNCHANGED not_slw

\* ---- ProcessDataRound
ProcessDataBehaviour(a) ==
    /\ SlwSend(a, "process_data", TRUE, init_data * 2)
    /\ UNCHANGED <<slw_round, slw_event, slw_order, slw_participants,
                   init_data, processed_data, printed_data, slw_keeper,
                   period_count>>
    /\ UNCHANGED not_slw

ProcessDataEndBlock ==
    /\ slw_round = "ProcessDataRound"
    /\ SlwThresholdReached(slw_collection, nb_participants)
    /\ processed_data' = SlwMostVotedPayload(slw_collection, nb_participants)
    /\ SlwEndRound("done")
    /\ UNCHANGED <<slw_participants, init_data, printed_data, slw_keeper,
                   period_count>>
    /\ UNCHANGED not_slw

\* ---- PrintResultRound: only the keeper sends
PrintResultBehaviour(a) ==
    /\ SlwSend(a, "print_result", a = slw_keeper, processed_data)
    /\ UNCHANGED <<slw_round, slw_event, slw_order, slw_participants,
                   init_data, processed_data, printed_data, slw_keeper,
                   period_count>>
    /\ UNCHANGED not_slw

PrintResultEndBlock ==
    /\ slw_round = "PrintResultRound"
    /\ slw_keeper \in DOMAIN slw_collection
    /\ printed_data' = slw_collection[slw_keeper]
    /\ SlwEndRound("done")
    /\ UNCHANGED <<slw_participants, init_data, processed_data, slw_keeper,
                   period_count>>
    /\ UNCHANGED not_slw

\* ---- ResetAndPauseRound
ResetAndPauseBehaviour(a) ==
    /\ SlwSend(a, "reset_and_pause", TRUE, period_count)
    /\ UNCHANGED <<slw_round, slw_event, slw_order, slw_participants,
                   init_data, processed_data, printed_data, slw_keeper,
                   period_count>>
    /\ UNCHANGED not_slw

\* synchronized_data.create(participants=..., all_participants=...): the
\* next period starts with these two keys only
ResetAndPauseEndBlock ==
    /\ slw_round = "ResetAndPauseRound"
    /\ period_count < MaxPeriods
    /\ IF SlwThresholdReached(slw_collection, nb_participants)
       THEN /\ period_count' = period_count + 1
            /\ init_data' = 0
            /\ processed_data' = 0
            /\ printed_data' = 0
            /\ slw_keeper' = 0
            /\ SlwEndRound("done")
       ELSE /\ ~SlwIsMajorityPossible(slw_collection, nb_participants)
            /\ UNCHANGED <<period_count, init_data, processed_data,
                           printed_data, slw_keeper>>
            /\ SlwEndRound("no_majority")
    /\ UNCHANGED slw_participants
    /\ UNCHANGED not_slw

NextSlw ==
    \/ \E a \in Agents : SlwSetDone(a)
    \/ \E a \in Agents : SlwNextBehaviour(a)
    \/ \E a \in Agents : SlwRegistrationBehaviour(a)
    \/ SlwRegistrationEndBlock
    \/ \E a \in Agents : SlwSelectKeeperBehaviour(a)
    \/ SlwSelectKeeperEndBlock
    \/ \E a \in Agents : GetDataBehaviour(a)
    \/ GetDataEndBlock
    \/ \E a \in Agents : ProcessDataBehaviour(a)
    \/ ProcessDataEndBlock
    \/ \E a \in Agents : PrintResultBehaviour(a)
    \/ PrintResultEndBlock
    \/ \E a \in Agents : ResetAndPauseBehaviour(a)
    \/ ResetAndPauseEndBlock

SpecSlw == InitSlw /\ [][NextSlw]_vars

\* ---- GetDataRound on its own: NumVoters participants vote on the content
Voters == 1..NumVoters

InitGetData ==
    /\ IdleCC
    /\ IdleLLM
    /\ IdlePass
    /\ IdleHttp
    /\ IdleValory
    /\ IdleSlw
    /\ IdleDedup
    /\ IdleSerializer
    /\ IdleDialogues
    /\ IdleBackoff
    /\ IdleConnections
    /\ gd_collection = EmptyCollection
    /\ gd_result = <<>>
    /\ gd_init_data = 0

\* a payload of voter a is processed and the block ends
GetDataProcessPayload(a, v) ==
    /\ gd_result = <<>>
    /\ a \notin DOMAIN gd_collection
    /\ LET coll == (a :> v) @@ gd_collection
           result == GetDataResult(coll, NumVoters, gd_init_data)
       IN /\ gd_collection' = coll
          /\ gd_result' = result
          /\ gd_init_data' = IF result = <<>> THEN gd_init_data ELSE result[2]
    /\ UNCHANGED not_gd

\* the app enters GetDataRound again: a new round object, an empty collection
GetDataNewRound ==
    /\ gd_result \notin {<<>>, <<"idle">>}
    /\ gd_collection' = EmptyCollection
    /\ gd_result' = <<>>
    /\ UNCHANGED gd_init_data
    /\ UNCHANGED not_gd

NextGetData ==
    \/ \E a \in Voters, v \in RandomValues : GetDataProcessPayload(a, v)
    \/ GetDataNewRound

SpecGetData == InitGetData /\ [][NextGetData]_vars

\* ---- remove_duplicates on its own
\* items with an id, with "id": None, and without the key
DedupItems ==
    {[id |-> i, question |-> q] :
        i \in Ids \cup {Missing}, q \in 1..NumQuestions}
    \cup {[question |-> q] : q \in 1..NumQuestions}

InitDedup ==
    /\ IdleCC
    /\ IdleLLM
    /\ IdlePass
    /\ IdleHttp
    /\ IdleValory
    /\ IdleSlw
    /\ IdleGetData
    /\ IdleSerializer
    /\ IdleDialogues
    /\ IdleBackoff
    /\ IdleConnections
    /\ rd_pc = "input"
    /\ rd_lst \in ListsUpTo(DedupItems, MaxList)
    /\ rd_out = <<>>
    /\ rd_again = <<>>

RemoveDuplicatesOnce ==
    /\ rd_pc = "input"
    /\ rd_pc' = "once"
    /\ rd_out' = remove_duplicates(rd_lst)
    /\ UNCHANGED <<rd_lst, rd_again>>
    /\ UNCHANGED not_rd

RemoveDuplicatesTwice ==
    /\ rd_pc = "once"
    /\ rd_pc' = "twice"
    /\ rd_again' = remove_duplicates(rd_out)
    /\ UNCHANGED <<rd_lst, rd_out>>
    /\ UNCHANGED not_rd

NextDedup == RemoveDuplicatesOnce \/ RemoveDuplicatesTwice

SpecDedup == InitDedup /\ [][NextDedup]_vars

(***************************************************************************)
(* ChatCompletionMessage and ChatCompletionSerializer.  A message is its   *)
(* header and the contents that are set; the generated protobuf module is  *)
(* not part of the sources, so a step that depends on its fields has both  *)
(* outcomes.                                                               *)
(***************************************************************************)
Texts == 1..NumTexts

\* the contents _SlotsCls allows next to the header
ContentSlots == {"system_message", "user_message", "response"}

\* the properties ChatCompletionMessage defines
MessageProperties ==
    {"valid_performatives", "dialogue_reference", "message_id",
     "performative", "target", "system_message", "user_message", "response"}

\* what the class Performative defines
PerformativeMembers == {"REQUEST", "RESPONSE", "__str__"}

\* the contents of a message: each slot is set to a text or not set
Contents ==
    UNION {[S -> Texts] : S \in SUBSET ContentSlots}

Messages ==
    [performative : {"request", "response"},
     message_id : 1..NumMessageIds,
     target : 0..1,
     content : Contents]

\* reading msg.<name>: AttributeError where the class has no such property,
\* an enforce error where the content is not set
ReadError(msg, name) ==
    IF name \notin MessageProperties THEN "AttributeError"
    ELSE IF name \in ContentSlots /\ name \notin DOMAIN msg.content
    THEN "AEAEnforceError"
    ELSE ""

\* _is_consistent: the header checks, then system_template, user_template
\* and response are read; an exception on the way gives False
_is_consistent(msg) ==
    /\ "valid_performatives" \in PerformativeMembers
    /\ ReadError(msg, "system_template") = ""
    /\ ReadError(msg, "user_template") = ""
    /\ ReadError(msg, "response") = ""

InitSerializer ==
    /\ IdleCC
    /\ IdleLLM
    /\ IdlePass
    /\ IdleHttp
    /\ IdleValory
    /\ IdleSlw
    /\ IdleGetData
    /\ IdleDedup
    /\ IdleDialogues
    /\ IdleBackoff
    /\ IdleConnections
    /\ ser_pc = "input"
    /\ ser_msg \in Messages
    /\ ser_wire = <<>>
    /\ ser_out = <<>>
    /\ ser_error = ""

SerializerRaise(name) ==
    /\ ser_pc' = "raised"
    /\ ser_error' = name
    /\ UNCHANGED <<ser_msg, ser_wire, ser_out>>

\* ChatCompletionSerializer.encode(msg)
encode ==
    /\ ser_pc = "input"
    /\ IF ser_msg.performative = "request"
       THEN SerializerRaise(ReadError(ser_msg, "system_template"))
       ELSE IF ReadError(ser_msg, "response") # ""
       THEN SerializerRaise(ReadError(ser_msg, "response"))
       ELSE \/ SerializerRaise("AttributeError")
            \/ /\ ser_pc' = "encoded"
               /\ ser_wire' =
                    [message_id |-> ser_msg.message_id,
                     target |-> ser_msg.target,
                     content |-> [performative |-> "response",
                                  response |-> ser_msg.content["response"]]]
               /\ UNCHANGED <<ser_msg, ser_out, ser_error>>
    /\ UNCHANGED not_ser

\* ChatCompletionSerializer.decode(obj): the content is parsed into
\* message_pb, the envelope, and the fields are read from chat_completion_pb,
\* which nothing was parsed into
decode ==
    /\ ser_pc = "encoded"
    /\ \/ SerializerRaise("ValueError")
       \/ /\ ser_pc' = "decoded"
          /\ ser_out' =
                [performative |-> ser_wire.content.performative,
                 message_id |-> ser_wire.message_id,
                 target |-> ser_wire.target,
                 content |-> ("value" :> EmptyString)]
          /\ UNCHANGED <<ser_msg, ser_wire, ser_error>>
    /\ UNCHANGED not_ser

NextSerializer == encode \/ decode

SpecSerializer == InitSerializer /\ [][NextSerializer]_vars

(***************************************************************************)
(* retry_with_exponential_backoff: one call of the wrapper; a step is one  *)
(* pass of its `while True` loop, that is one call of func.                *)
(***************************************************************************)
\* errors: the exceptions that are retried
errors ==
    {"APIError", "Timeout", "RateLimitError", "APIConnectionError",
     "AuthenticationError", "InvalidRequestError", "ServiceUnavailableError"}

\* exceptions of func that are not in `errors`
OtherExceptions == {"ValueError"}

\* what func returns
FuncResults == 1..NumResults

\* 1 + jitter * random.random(), as the factor exponential_base is
\* multiplied by: 2 for random() = 0, below 4 for every random()
DelayFactors == {2, 3}

InitBackoff ==
    /\ IdleCC
    /\ IdleLLM
    /\ IdlePass
    /\ IdleHttp
    /\ IdleValory
    /\ IdleSlw
    /\ IdleGetData
    /\ IdleDedup
    /\ IdleSerializer
    /\ IdleDialogues
    /\ IdleConnections
    /\ \E m \in 0..MaxBackoffRetries :
         wrapper = [pc |-> "loop", max_retries |-> m, num_retries |-> 0,
                    delay |-> initial_delay, calls |-> <<>>,
                    result |-> <<>>]

\* variant: the test lets one more retry through
MaxRetriesReachedLate(num_retries, max_retries) == num_retries > max_retries + 1

\* if num_retries > max_retries: raise Exception("Maximum number ...")
MaxRetriesReached(num_retries, max_retries) == num_retries > max_retries

\* return func(*args, **kwargs)
WrapperReturns(v) ==
    /\ wrapper # <<>>
    /\ wrapper.pc = "loop"
    /\ wrapper' = [wrapper EXCEPT !.pc = "returned",
                                  !.calls = Append(@, "returned"),
                                  !.result = <<"return", v>>]
    /\ UNCHANGED not_bo

\* except errors as e: count the retry, then give up or sleep and loop
WrapperCatches(e) ==
    /\ wrapper # <<>>
    /\ wrapper.pc = "loop"
    /\ LET num_retries == wrapper.num_retries + 1 IN
       IF MaxRetriesReached(num_retries, wrapper.max_retries)
       THEN wrapper' = [wrapper EXCEPT
                           !.pc = "raised",
                           !.num_retries = num_retries,
                           !.calls = Append(@, "error"),
                           !.result = <<"raise", "Exception", e>>]
       ELSE \E f \in DelayFactors :
              wrapper' = [wrapper EXCEPT
                             !.num_retries = num_retries,
                             !.calls = Append(@, "error"),
                             !.delay = @ * f]
    /\ UNCHANGED not_bo

\* except Exception as e: raise e
WrapperRaises(e) ==
    /\ wrapper # <<>>
    /\ wrapper.pc = "loop"
    /\ wrapper' = [wrapper EXCEPT !.pc = "raised",
                                  !.calls = Append(@, "other"),
                                  !.result = <<"raise", e>>]
    /\ UNCHANGED not_bo

NextBackoff ==
    \/ \E v \in FuncResults : WrapperReturns(v)
    \/ \E e \in errors : WrapperCatches(e)
    \/ \E e \in OtherExceptions : WrapperRaises(e)

SpecBackoff == InitBackoff /\ [][NextBackoff]_vars

\* every call of func comes back, and the sleep ends
SpecBackoffFair == SpecBackoff /\ WF_vars(NextBackoff)

(***************************************************************************)
(* RabbitMQConnection and ChatCompletionConnection: on_send serves one     *)
(* envelope.  The broker's queues and the OpenAI API are outside the       *)
(* program: a queue is the list of its message bodies, a connection to the *)
(* broker and a call of the API succeed or fail.                           *)
(***************************************************************************)
SkillIds == 1..NumSkills

QueueNames == {"requests", "responses"}

\* a message body: whether json.loads reads it, and the keys it then has
Body(json, keys) == [json |-> json, keys |-> keys]

Bodies ==
    {Body(TRUE, {"id", "user_message", "system_message"}),
     Body(TRUE, {"id", "user_message"}),
     Body(TRUE, {"user_message"}),
     Body(TRUE, {"id"}),
     Body(FALSE, {})}

\* publish_message: the dict of a response; json.dumps(publish_message) is
\* read by json.loads
PublishMessages == {Body(TRUE, {"id", "response"})}

QueuesUpTo(n) == UNION {[1..k -> Bodies] : k \in 0..n}

InitConnections ==
    /\ IdleCC
    /\ IdleLLM
    /\ IdlePass
    /\ IdleHttp
    /\ IdleValory
    /\ IdleSlw
    /\ IdleGetData
    /\ IdleDedup
    /\ IdleSerializer
    /\ IdleDialogues
    /\ IdleBackoff
    /\ \E q \in QueuesUpTo(MaxQueued) :
         queues = [n \in QueueNames |->
                      IF n = "requests" THEN q ELSE <<>>]
    /\ on_send = <<>>

\* Envelope(to=envelope.sender, sender=envelope.to, message=reply)
ResponseEnvelope(envelope, performative, response) ==
    [to |-> envelope.sender, sender |-> envelope.to,
     performative |-> performative, response |-> response]

\* the record of one call of on_send
OnSend(envelope, put, raised) ==
    [envelope |-> envelope, put |-> put, raised |-> raised]

\* channel.basic_ack(...) right after basic_get: the message leaves the
\* queue before json.loads and the tests for id and user_message
Acknowledged(q) == Tail(q)

IsValidRequest(body) ==
    body.json /\ "id" \in body.keys /\ "user_message" \in body.keys

\* _get_consume_response: the response, and the queue it leaves
_get_consume_response(q, connects) ==
    IF ~connects
    THEN [response |-> [received_request |-> "False", error |-> "True",
                        data |-> <<>>],
          queue |-> q]
    ELSE IF q = <<>>
    THEN [response |-> [received_request |-> "False", error |-> "False",
                        data |-> <<>>],
          queue |-> q]
    ELSE IF IsValidRequest(Head(q))
    THEN [response |->
             [received_request |-> "True", error |-> "False",
              data |-> <<Body(TRUE, Head(q).keys \cup {"system_message"})>>],
          queue |-> Acknowledged(q)]
    ELSE [response |-> [received_request |-> "False", error |-> "True",
                        data |-> <<>>],
          queue |-> Acknowledged(q)]

\* _get_publish_response
_get_publish_response(q, connects, publish_message) ==
    IF connects
    THEN [response |-> [published |-> "True"],
          queue |-> Append(q, publish_message)]
    ELSE [response |-> [published |-> "False"], queue |-> q]

RabbitmqPerformatives ==
    {"consume_request", "consume_response",
     "publish_request", "publish_response"}

\* RabbitMQConnection.on_send
RabbitMQConnection_on_send(envelope, connects) ==
    /\ queues # <<>>
    /\ envelope.to = "rabbitmq"
    /\ LET q == queues[envelope.queue_name] IN
       CASE envelope.performative = "consume_request" ->
              LET r == _get_consume_response(q, connects) IN
              /\ queues' = [queues EXCEPT ![envelope.queue_name] = r.queue]
              /\ on_send' =
                   OnSend(envelope,
                          <<ResponseEnvelope(envelope, "consume_response",
                                             r.response)>>, "")
         [] envelope.performative = "publish_request" ->
              LET r == _get_publish_response(q, connects,
                                             envelope.publish_message[1]) IN
              /\ Len(r.queue) <= MaxQueued
              /\ queues' = [queues EXCEPT ![envelope.queue_name] = r.queue]
              /\ on_send' =
                   OnSend(envelope,
                          <<ResponseEnvelope(envelope, "publish_response",
                                             r.response)>>, "")
         [] OTHER ->
              /\ on_send' = OnSend(envelope, <<>>, "")
              /\ UNCHANGED queues
    /\ UNCHANGED not_conn

\* the envelopes of the skill: it consumes from the queue of requests and
\* publishes to the queue of responses
RabbitmqEnvelopes ==
    {[to |-> "rabbitmq", sender |-> s, performative |-> p,
      queue_name |-> IF p = "publish_request" THEN "responses"
                     ELSE "requests",
      publish_message |-> IF p = "publish_request" THEN <<m>> ELSE <<>>] :
        s \in SkillIds, p \in RabbitmqPerformatives, m \in PublishMessages}

\* the content `request` of a REQUEST: whether it has the key "request",
\* whether json.loads reads the text under it, and the request_type of the
\* dict it then gives ("" where there is none)
RequestTypes == {"", "chat_completion", "embedding", "chat", "summary"}

Requests ==
    {[has_request |-> FALSE, json |-> FALSE, request_type |-> ""],
     [has_request |-> TRUE, json |-> FALSE, request_type |-> ""]}
    \cup {[has_request |-> TRUE, json |-> TRUE, request_type |-> t] :
            t \in RequestTypes}

\* the outcome of the OpenAI calls of cc_repsonse, embedding_response and
\* chat_response: a result or an exception
ApiOutcomes == {"ok", "Exception"}

ErrorResponse(name) == [error |-> "True", error_name |-> name]

\* get_response: every exception becomes an error response
get_response(request_message, api) ==
    IF request_message.request_type = ""
    THEN ErrorResponse("AssertionError")
    ELSE IF request_message.request_type
              \in {"chat_completion", "embedding", "chat"}
    THEN IF api = "ok"
         THEN [error |-> "False", error_name |-> ""]
         ELSE ErrorResponse(api)
    ELSE ErrorResponse("Exception")

ChatCompletionPerformatives == {"request", "response"}

\* ChatCompletionConnection.on_send
ChatCompletionConnection_on_send(envelope, api) ==
    /\ queues # <<>>
    /\ envelope.to = "chat_completion"
    /\ on_send' =
         IF envelope.performative # "request"
         THEN OnSend(envelope, <<>>, "")
         ELSE IF ~envelope.request.has_request
         THEN \* chat_completion_message.request["request"]
              OnSend(envelope, <<>>, "KeyError")
         ELSE IF ~envelope.request.json
         THEN \* json.loads(...)
              OnSend(envelope, <<>>, "JSONDecodeError")
         ELSE OnSend(envelope,
                     <<ResponseEnvelope(envelope, "response",
                           get_response(envelope.request, api))>>, "")
    /\ UNCHANGED queues
    /\ UNCHANGED not_conn

ChatCompletionEnvelopes ==
    {[to |-> "chat_completion", sender |-> s, performative |-> p,
      request |-> r] :
        s \in SkillIds, p \in ChatCompletionPerformatives, r \in Requests}

NextConnections ==
    \/ \E envelope \in RabbitmqEnvelopes, connects \in BOOLEAN :
          RabbitMQConnection_on_send(envelope, connects)
    \/ \E envelope \in ChatCompletionEnvelopes, api \in ApiOutcomes :
          ChatCompletionConnection_on_send(envelope, api)

SpecConnections == InitConnections /\ [][NextConnections]_vars

(***************************************************************************)
(* ChatCompletionDialogue and RabbitmqDialogue: the rules of each class,   *)
(* and a dialogue that is extended by a message only if the rules allow.   *)
(***************************************************************************)
Performative ==
    [chat_completion |-> {"request", "response"},
     rabbitmq |-> {"consume_request", "consume_response",
                   "publish_request", "publish_response"}]

INITIAL_PERFORMATIVES ==
    [chat_completion |-> {"request"},
     rabbitmq |-> {"consume_request", "publish_request"}]

TERMINAL_PERFORMATIVES ==
    [chat_completion |-> {"response"},
     rabbitmq |-> {"consume_response", "publish_response"}]

\* variant: a response may be answered by a request
VALID_REPLIES_ResponseAnswered ==
    [chat_completion |->
        [request |-> {"response"}, response |-> {"request"}],
     rabbitmq |->
        [consume_request |-> {"consume_response"},
         consume_response |-> {"consume_request"},
         publish_request |-> {"publish_response"},
         publish_response |-> {"publish_request"}]]

VALID_REPLIES ==
    [chat_completion |->
        [request |-> {"response"}, response |-> {}],
     rabbitmq |->
        [consume_request |-> {"consume_response"},
         consume_response |-> {},
         publish_request |-> {"publish_response"},
         publish_response |-> {}]]

Protocols == DOMAIN Performative

DialogueIds == 1..NumDialogues

InitDialogues ==
    /\ IdleCC
    /\ IdleLLM
    /\ IdlePass
    /\ IdleHttp
    /\ IdleValory
    /\ IdleSlw
    /\ IdleGetData
    /\ IdleDedup
    /\ IdleSerializer
    /\ IdleBackoff
    /\ IdleConnections
    /\ dlg_protocol \in Protocols
    /\ dialogues = [d \in DialogueIds |-> <<>>]
    /\ dlg_last = <<>>

\* the message may extend the dialogue: a first message has an initial
\* performative and target 0, a later one is a valid reply to its target
is_valid_next_message(msgs, performative, target) ==
    IF msgs = <<>>
    THEN performative \in INITIAL_PERFORMATIVES[dlg_protocol] /\ target = 0
    ELSE /\ target \in DOMAIN msgs
         /\ performative \in
                VALID_REPLIES[dlg_protocol][msgs[target].performative]

\* a message with the given performative and target is offered to dialogue d
DialogueUpdate(d, performative, target) ==
    /\ Len(dialogues[d]) < MaxMessages
    /\ LET ok == is_valid_next_message(dialogues[d], performative, target)
       IN /\ dialogues' =
                IF ok
                THEN [dialogues EXCEPT ![d] = Append(@,
                        [performative |-> performative, target |-> target])]
                ELSE dialogues
          /\ dlg_last' = [dialogue |-> d, performative |-> performative,
                          target |-> target, added |-> ok]
    /\ UNCHANGED dlg_protocol
    /\ UNCHANGED not_dlg

NextDialogues ==
    \E d \in DialogueIds, p \in Performative[dlg_protocol],
       t \in 0..MaxMessages : DialogueUpdate(d, p, t)

SpecDialogues == InitDialogues /\ [][NextDialogues]_vars

(***************************************************************************)
(* Properties                                                              *)
(***************************************************************************)
SyncEnds == round = "SynchronizeRequestsRound" /\ CollectionFull /\ exception = ""

ProcessEnds == round = "ProcessRequestRound" /\ CollectionFull /\ exception = ""

NoIdInBoth == RequestIds(requests) \cap RequestIds(responses) = {}

\* C1: in every reachable state no two entries of `requests` have the same
\* id and no two entries of `responses` have the same id.
C1_UniqueIdsPerCollection == UniqueIds(requests) /\ UniqueIds(responses)

\* C2: merging the same batch twice into an empty store leaves exactly one
\* entry per distinct id of the batch in `requests`, and the second merge
\* adds no entry.  (Requests that arrive with num_tries >= MAX_TRIES are not
\* counted: the ceiling removes them.)
C2_MergeTwiceOnePerId ==
    (SyncEnds /\ requests = <<>> /\ responses = <<>>) =>
        \A new1, new2 \in Orderings(NewRequestsSet(collection)),
           parts1, parts2 \in Orderings(Agents) :
            LET once  == SynchronizeResult(<<>>, <<>>, new1, parts1)
                twice == SynchronizeResult(once, <<>>, new2, parts2)
            IN /\ twice = once
               /\ UniqueIds(twice)
               /\ RequestIds(twice) =
                    {x.id : x \in {y \in NewRequestsSet(collection) :
                                      y.num_tries < MAX_TRIES}}

\* C3: a completed SynchronizeRequestsRound leaves no entry in `requests`
\* for a submitted request whose id is present in `responses`.
C3_ProcessedIdsNotReadded ==
    [][SyncEnds =>
        \A x \in NewRequestsSet(collection) :
            x.id \in RequestIds(responses) => x.id \notin RequestIds(requests')
      ]_vars

C3_Witness ==
    /\ round = "ProcessRequestRound"
    /\ \E x \in not_merged :
          x.id \in RequestIds(responses) /\ x.num_tries < MAX_TRIES

\* C4: when ProcessRequestRound ends with DONE every response collected in
\* the round is in `responses` and its id is no longer in `requests`; no
\* state has an id in both `requests` and `responses`.
C4_ProcessedMoveToResponses ==
    [][/\ NoIdInBoth'
       /\ (ProcessEnds /\ round' = "SynchronizeRequestsRound") =>
             \A r \in NewResponsesSet(collection) :
                /\ r \in Range(responses')
                /\ r.id \notin RequestIds(requests')
      ]_vars

C4_Witness ==
    /\ round = "SynchronizeRequestsRound"
    /\ responses # <<>>

\* the partitioning pass as C5 describes it: the i-th item without a
\* processor gets parts[i mod N], only the first N of them get one
ClaimedAssign(s, parts) ==
    [k \in DOMAIN s |->
        LET i == Cardinality({j \in 1..(k - 1) : s[j].processor = NoProcessor})
        IN IF s[k].processor = NoProcessor /\ i < Len(parts)
           THEN [s[k] EXCEPT !.processor = parts[(i % Len(parts)) + 1]]
           ELSE s[k]]

\* C5: the pass of a SynchronizeRequestsRound gives an item without a
\* processor participants[i mod N], i its position among the unassigned
\* items, and only the first N unassigned items get a processor.
C5_PartitionByUnassignedPosition ==
    [][SyncEnds =>
        \E new \in Orderings(NewRequestsSet(collection)),
           parts \in Orderings(Agents) :
            requests' =
                ClaimedAssign(
                    SortByTime(DropExhausted(
                        requests \o FilterNew(new, requests, responses))),
                    parts)
      ]_vars

\* the entries of requests' that had no processor when the pass began
AssignedInPass ==
    {i \in DOMAIN requests' :
        \A j \in DOMAIN requests : requests[j] # requests'[i]}

\* C6: M <= N items that have no processor when a SynchronizeRequestsRound
\* completes receive pairwise distinct processors, all of them participants.
C6_DistinctProcessors ==
    [][(SyncEnds /\ Cardinality(AssignedInPass) <= NumAgents) =>
        \A i, j \in AssignedInPass :
            /\ requests'[i].processor \in Agents
            /\ i # j => requests'[i].processor # requests'[j].processor
      ]_vars

\* C7: a ProcessRequestRound whose collection reports a failed request
\* completes, and leaves that request in `requests` with num_tries one higher
\* than before, processor cleared and processed = false.
C7_FailureRecorded ==
    [][(ProcessEnds /\ FailedRequests(collection) # {}) =>
        /\ round' = "SynchronizeRequestsRound"
        /\ \A f \in FailedRequests(collection) :
              \E i \in DOMAIN requests' :
                 /\ requests'[i].id = f.id
                 /\ requests'[i].request_time = f.request_time
                 /\ requests'[i].num_tries = f.num_tries
                 /\ requests'[i].processor = NoProcessor
                 /\ requests'[i].processed = FALSE
      ]_vars

C10_Deterministic ==
    /\ SyncEnds =>
         \A parts \in Orderings(Agents) :
            \A new1, new2 \in Orderings(NewRequestsSet(collection)) :
               SynchronizeResult(requests, responses, new1, parts) =
               SynchronizeResult(requests, responses, new2, parts)
    /\ (ProcessEnds /\ ~FailedRequestsAddRaises(collection)) =>
         \A new1, new2 \in Orderings(NewResponsesSet(collection)) :
            responses \o new1 = responses \o new2

\* C14: the current round has a timeout event, distinct from its done
\* event, with a transition and a timeout, so that a round whose collection
\* never fills is left.
C14_RoundLeftByTimeout ==
    exception = "" =>
        /\ "round_timeout" \in DOMAIN transition_function[round]
        /\ "round_timeout" \in DOMAIN event_to_timeout

\* C16: between two end_blocks the list a behaviour got from
\* synchronized_data.requests is the list the last end_block wrote: the
\* behaviour has changed none of its items.
C16_BehavioursOnlyRead ==
    round = "ProcessRequestRound" =>
        \A a \in DOMAIN collection : read_requests[a] = requests

\* C20: ProcessRequestRound.end_block never raises, whatever the payloads
\* of a full collection report.
C20_FailureNotFatal == exception = ""

\* C11: in a SelectKeeperRound all agents send the same keeper, whatever
\* order each of them iterates the participants in; the keeper is a
\* function of the participant set and most_voted_randomness alone, and it
\* is one of the participants.
C11_KeeperDeterministic ==
    llm_round = "SelectKeeperRound" =>
        /\ \A a, b \in DOMAIN llm_submitted :
              llm_submitted[a].keeper = llm_submitted[b].keeper
        /\ \A a \in DOMAIN llm_submitted :
              llm_submitted[a].keeper \in Range(llm_participants)
        /\ \A p1, p2 \in Orderings(Range(llm_participants)) :
              /\ KeeperAddress(p1, most_voted_randomness) =
                 KeeperAddress(p2, most_voted_randomness)
              /\ KeeperAddress(p1, most_voted_randomness)
                    \in Range(llm_participants)

C11_Witness ==
    /\ llm_round = "SelectKeeperRound"
    /\ LLMAllSubmitted
    /\ Len(llm_participants) > 1

\* the order of rounds that C12 states for the DONE event
ClaimedDoneSuccessor ==
    [RegistrationRound |-> "CollectRandomnessRound",
     CollectRandomnessRound |-> "SelectKeeperRound",
     SelectKeeperRound |-> "WaitForRequestRound",
     WaitForRequestRound |-> "ProcessRequestRound",
     ProcessRequestRound |-> "PublishResponseRound",
     PublishResponseRound |-> "CollectRandomnessRound"]

\* a round of LLMChatCompletionAbciApp ends by its end_block
LLMEndBlockStep ==
    llm_submitted # EmptyCollection /\ llm_submitted' = EmptyCollection

\* C12: every round that ends with DONE is followed by the next round of
\* Registration, CollectRandomness, SelectKeeper, WaitForRequest,
\* ProcessRequest, PublishResponse, CollectRandomness, ...: no round is
\* skipped and RegistrationRound is not entered by a DONE event.
C12_DonePath ==
    [][(LLMEndBlockStep /\ llm_event' = "done") =>
          /\ llm_round' = ClaimedDoneSuccessor[llm_round]
          /\ llm_round' # "RegistrationRound"
      ]_vars

C12_Witness ==
    /\ llm_round = "CollectRandomnessRound"
    /\ llm_event = "done"
    /\ response_queue # <<>>

\* C13: the current round of LLMChatCompletionAbciApp has an error,
\* no-majority or timeout transition, and each such transition leads to
\* RegistrationRound or to the round itself.
C13_ErrorEdgeEverywhere ==
    llm_round \in LLMRounds =>
        LET edges == DOMAIN LLMTransitionFunction[llm_round]
                        \cap {"error", "no_majority", "round_timeout"}
        IN /\ edges # {}
           /\ \A e \in edges :
                 LLMTransitionFunction[llm_round][e]
                    \in {"RegistrationRound", llm_round}

KeeperRounds ==
    {"WaitForRequestRound", "ProcessRequestRound", "PublishResponseRound"}

\* a payload that carries no request data
NoOpPayload(r, p) ==
    CASE r = "WaitForRequestRound" -> p.request_received_at = "None"
      [] r = "ProcessRequestRound" -> p.request_id = 0 /\ p.response = 0
      [] r = "PublishResponseRound" ->
            DOMAIN p = {"sender", "request_published_at"}

C18_NoParticipantsNoOp ==
    (pass_pc \notin {"", "input"} /\ pass_participants = <<>>) =>
        /\ pass_pc = "done"
        /\ pass_out = pass_pending

\* the body of a request lacks a key its schema requires, or is not JSON
Malformed(body) ==
    \/ ~body.is_json
    \/ body.route = "chat_completion" /\ ~ChatCompletionParses(body)
    \/ body.route = "chat" /\ (body.context_id = Missing \/ ~ChatParses(body))

\* C19: handling a POST whose body does not satisfy the request schema
\* puts one 400 response in the outbox, appends nothing to
\* new_chat_requests and ends without an exception.
C19_MalformedRejected ==
    [][(Handled' = Handled + 1 /\ Malformed(http_msg')) =>
            /\ handler_exception' = ""
            /\ outbox' = Append(outbox, BAD_REQUEST_CODE)
            /\ new_chat_requests' = new_chat_requests]_vars

\* a step in which a round of ValoryChatAbciApp returns a result
ValoryEndBlockStep ==
    \/ SynchronizeEmbeddingsEndBlock
    \/ EmbeddingEndBlock
    \/ ValorySynchronizeRequestsEndBlock
    \/ ChatEndBlock

\* C17: in ChatCompletionAbciApp and in ValoryChatAbciApp the store changes
\* and a round returns a result only in a step that starts with one payload
\* of every participant in the collection; with fewer payloads end_block
\* changes nothing.
C17_NothingBeforeAllSubmitted ==
    [][/\ (\/ <<participants, requests, responses>>' #
                    <<participants, requests, responses>>
           \/ round' # round)
          => Cardinality(DOMAIN collection) = NumAgents
       /\ (\/ <<chats, embedding, chat_histories>>' #
                    <<chats, embedding, chat_histories>>
           \/ ValoryEndBlockStep)
          => Len(v_collection) = NumAgents]_vars

\* ChatRound is open with some but not all payloads, after a
\* SynchronizeRequestsRound that wrote chats
C17_Witness ==
    /\ v_round = "ChatRound"
    /\ Len(v_collection) \in 1..(NumAgents - 1)
    /\ chats # <<>>

\* C21: once a RegistrationRound has ended with DONE, `participants` in the
\* store is the ascending tuple of all agents, in ChatCompletionAbciApp,
\* LLMChatCompletionAbciApp and SlwWorldAbciApp alike.
C21_ParticipantsSorted ==
    /\ participants # <<>> => participants = SortedAgents(Agents)
    /\ llm_participants # <<>> => llm_participants = SortedAgents(Agents)
    /\ slw_participants # <<>> => slw_participants = SortedAgents(Agents)

\* the behaviour agent a is given next, when it is handed one in this step
Rescheduled(a, b, event) ==
    /\ slw_agent[a].pc = "done"
    /\ slw_agent'[a].pc = "act"
    /\ slw_agent[a].behaviour = b
    /\ slw_event = event

\* C25: after GetDataRound ends with DONE an agent runs the process_data
\* behaviour, after ProcessDataRound ends with DONE the print_result
\* behaviour, after GetDataRound ends with NO_MAJORITY the get_data behaviour
\* again; and a get_data or process_data behaviour is done only after it has
\* sent its payload.
C25_BehaviourSequence ==
    /\ [](\A a \in Agents :
            (slw_agent[a].pc = "done"
             /\ slw_agent[a].behaviour \in {"get_data", "process_data"})
            => slw_agent[a].sent)
    /\ [][\A a \in Agents :
            /\ Rescheduled(a, "get_data", "done")
               => slw_agent'[a].behaviour = "process_data"
            /\ Rescheduled(a, "process_data", "done")
               => slw_agent'[a].behaviour = "print_result"
            /\ Rescheduled(a, "get_data", "no_majority")
               => slw_agent'[a].behaviour = "get_data"]_vars

\* an agent runs get_data again after NO_MAJORITY while another one, done
\* with process_data, is about to be given print_result
C25_Witness ==
    \E a, b \in Agents :
        /\ slw_agent[a].behaviour = "process_data"
        /\ slw_agent[a].pc = "done"
        /\ slw_event = "done"
        /\ slw_agent[b].behaviour = "print_result"

\* an agent is done with get_data after a round without majority
C25_WitnessNoMajority ==
    \E a \in Agents :
        /\ slw_agent[a].behaviour = "get_data"
        /\ slw_agent[a].pc = "done"
        /\ slw_event = "no_majority"


\* payloads of the examined round whose content is v
Submitted(v) == {a \in DOMAIN gd_collection : gd_collection[a] = v}

\* a value reaches the threshold (more than two thirds of the voters)
Reaches(v) == 3 * Cardinality(Submitted(v)) > 2 * NumVoters

\* v could still reach the threshold if every missing voter chose it
CanReach(v) ==
    3 * (Cardinality(Submitted(v)) + NumVoters
            - Cardinality(DOMAIN gd_collection)) > 2 * NumVoters

\* C24: GetDataRound ends with DONE and init_data = v exactly when v was
\* submitted by at least the consensus threshold of the participants,
\* whatever the minority sent; it ends with NO_MAJORITY, init_data untouched,
\* exactly when no value can reach the threshold any more; otherwise it
\* stays open.
C24_GetDataMajority ==
    gd_result # <<"idle">> =>
        /\ \A v \in RandomValues :
              Reaches(v) <=> gd_result = <<"done", v>>
        /\ (gd_result # <<>> /\ gd_result[1] = "done")
              => gd_init_data = gd_result[2]
        /\ (\A v \in RandomValues : ~CanReach(v))
              <=> (gd_result # <<>> /\ gd_result[1] = "no_majority")
        /\ (gd_result # <<>> /\ gd_result[1] = "no_majority")
              => gd_result[2] = gd_init_data

\* three of four voters sent the same value and one sent another
C24_Witness ==
    /\ gd_result # <<>>
    /\ gd_result[1] = "done"
    /\ Cardinality(Submitted(gd_result[2])) < Cardinality(DOMAIN gd_collection)
    /\ Cardinality(DOMAIN gd_collection) >= 3

\* a round whose votes are split ended without majority
C24_WitnessNoMajority ==
    /\ gd_result # <<>>
    /\ gd_result[1] = "no_majority"
    /\ gd_init_data # 0


\* positions of rd_lst holding the first item of an id
FirstOccurrences ==
    {k \in DOMAIN rd_lst :
        /\ "id" \in DOMAIN rd_lst[k]
        /\ rd_lst[k].id # Missing
        /\ \A j \in 1..(k - 1) :
              "id" \in DOMAIN rd_lst[j] => rd_lst[j].id # rd_lst[k].id}

\* the n-th smallest element of a set of positions
Nth(P, n) == CHOOSE k \in P : Cardinality({j \in P : j <= k}) = n

\* C30: remove_duplicates returns, in the original order, the first item of
\* each distinct id and drops the items without id; applying it to its own
\* result changes nothing.
C30_RemoveDuplicates ==
    /\ rd_pc \in {"once", "twice"} =>
          /\ Len(rd_out) = Cardinality(FirstOccurrences)
          /\ \A n \in DOMAIN rd_out :
                rd_out[n] = rd_lst[Nth(FirstOccurrences, n)]
    /\ rd_pc = "twice" => rd_again = rd_out

\* a list with a repeated id and an item without id was reduced twice
C30_Witness ==
    /\ rd_pc = "twice"
    /\ Len(rd_lst) = 3
    /\ Len(rd_out) = 1
    /\ \E k \in DOMAIN rd_lst : "id" \notin DOMAIN rd_lst[k]
    /\ \E j, k \in DOMAIN rd_lst :
          /\ j < k
          /\ "id" \in DOMAIN rd_lst[j]
          /\ "id" \in DOMAIN rd_lst[k]
          /\ rd_lst[j].id = rd_lst[k].id
          /\ rd_lst[j] # rd_lst[k]
          /\ rd_out[1] = rd_lst[j]


\* a JSON body without id whose other fields are all acceptable
ValidWithoutId(body) ==
    /\ body.is_json
    /\ body.id = Missing
    /\ \/ /\ body.route = "chat_completion"
          /\ body.system_message # Missing
          /\ body.user_message # Missing
       \/ /\ body.route = "chat"
          /\ store_attributes
          /\ body.context_id \in store_embeddings
          /\ body.memory_id \in {Missing} \cup store_chat_histories
          /\ body.question # Missing

\* C28: a POST /chat_completion or /chat whose body has no id is accepted:
\* the answer is 200 and the request is appended to new_chat_requests.
C28_IdGenerated ==
    (http_msg # <<>> /\ ValidWithoutId(http_msg))
        => /\ outbox # <<>>
           /\ outbox[Len(outbox)] = OK_CODE
           /\ new_chat_requests # <<>>


C29_ProcessorKept ==
    pass_pc = "done" =>
        \A k \in DOMAIN pass_pending :
            pass_pending[k].processor # NoProcessor
                => pass_out[k].processor = pass_pending[k].processor


\* C23: a chat request whose id is the id of a processed chat of `chats`
\* does not become a pending item: no unprocessed entry of `chats` has the
\* id of a processed one, and none is given a processor.
C23_ProcessedNotPending ==
    \A j, k \in DOMAIN chats :
        (chats[j].processed /\ chats[j].id = chats[k].id) => chats[k].processed


\* a message with the content of its performative
ValidMessage(msg) ==
    \/ msg.performative = "request"
       /\ {"system_message", "user_message"} \subseteq DOMAIN msg.content
    \/ msg.performative = "response" /\ "response" \in DOMAIN msg.content

\* C26: for a message with the content of its performative, encode and then
\* decode end without exception and give the message back; a message
\* without that content is not consistent.
C26_RoundTrip ==
    /\ (ser_pc = "raised" => ~ValidMessage(ser_msg))
    /\ (ser_pc = "decoded" => ser_out = ser_msg)
    /\ (ser_msg # <<>> /\ ~ValidMessage(ser_msg)) => ~_is_consistent(ser_msg)


\* the request a response performative answers
RequestOf ==
    [response |-> "request", consume_response |-> "consume_request",
     publish_response |-> "publish_request"]

IsPrefix(s, t) ==
    /\ Len(s) <= Len(t)
    /\ \A i \in DOMAIN s : t[i] = s[i]

C31_ResponsesAppendOnly ==
    [][/\ IsPrefix(responses, responses')
       /\ round = "SynchronizeRequestsRound" => responses' = responses
       /\ (ProcessEnds /\ round' = "SynchronizeRequestsRound") =>
             /\ Len(responses') =
                   Len(responses) + Cardinality(NewResponsesSet(collection))
             /\ \A i \in (Len(responses) + 1)..Len(responses') :
                   responses'[i] \in NewResponsesSet(collection)
      ]_vars

\* two responses of the same processor: they were appended by two
\* different ProcessRequestRounds, with a SynchronizeRequestsRound between
C31_Witness ==
    /\ round = "ProcessRequestRound"
    /\ Len(responses) >= 2
    /\ responses[1].processor = responses[2].processor

\* C33: when EmbeddingRound ends, `embedding` keeps its length, an entry
\* whose id is the id of a processed embedding of the round becomes a
\* processed embedding of that id, and every other entry is unchanged.
ProcessedFor(processed, item) ==
    {processed[k] : k \in {j \in DOMAIN processed :
                              processed[j].id = item.id}}

C33_EmbeddingReplacedInPlace ==
    [][(v_round = "EmbeddingRound" /\ v_round' # v_round) =>
         LET processed == PayloadItems(v_collection) IN
         /\ Len(embedding') = Len(embedding)
         /\ \A i \in DOMAIN embedding :
               IF ProcessedFor(processed, embedding[i]) # {}
               THEN embedding'[i] \in ProcessedFor(processed, embedding[i])
               ELSE embedding'[i] = embedding[i]
      ]_vars

\* C32: when ChatRound ends with DONE, a stored chat whose id is the id of
\* a processed chat of the round is replaced by that processed chat and
\* every other stored chat is unchanged; chat_histories[memory_id] is the
\* chat_history of each processed chat, and every other entry of
\* chat_histories is unchanged.  Every chat of the model has request_type
\* "chat", the default of the Chat schema.
ChatRoundDone == v_round = "ChatRound" /\ v_round' = "FinishedValoryChatRound"

C32_ChatsPart ==
    LET processed == PayloadItems(v_collection) IN
    /\ Len(chats') = Len(chats)
    /\ \A i \in DOMAIN chats :
          IF ProcessedFor(processed, chats[i]) # {}
          THEN chats'[i] \in ProcessedFor(processed, chats[i])
          ELSE chats'[i] = chats[i]

C32_HistoriesPart ==
    LET processed == PayloadItems(v_collection) IN
    /\ \A k \in DOMAIN processed :
          /\ processed[k].memory_id \in DOMAIN chat_histories'
          /\ chat_histories'[processed[k].memory_id] =
                processed[k].chat_history
    /\ \A m \in DOMAIN chat_histories :
          (\A k \in DOMAIN processed : processed[k].memory_id # m) =>
             /\ m \in DOMAIN chat_histories'
             /\ chat_histories'[m] = chat_histories[m]
    /\ \A m \in DOMAIN chat_histories' :
          \/ m \in DOMAIN chat_histories
          \/ \E k \in DOMAIN processed : processed[k].memory_id = m

C32_ChatRoundFrame ==
    [][ChatRoundDone => (C32_ChatsPart /\ C32_HistoriesPart)]_vars

\* C34: a wrapped function is called at most max_retries + 1 times (4 with
\* the default max_retries = 3).  The wrapper returns the result of the
\* first call that succeeds, every call before it having raised a listed
\* error; it raises at once the exception of a call that is not a listed
\* error; it raises the 'Maximum number of retries' exception when
\* max_retries + 1 calls raised a listed error; and it always ends.
Calls(kind) == {i \in DOMAIN wrapper.calls : wrapper.calls[i] = kind}

OnlyLastIs(kind) ==
    /\ Calls(kind) = {Len(wrapper.calls)}
    /\ Calls("error") = 1..(Len(wrapper.calls) - 1)

C34_Safe ==
    wrapper # <<>> =>
      /\ Len(wrapper.calls) <= wrapper.max_retries + 1
      /\ wrapper.max_retries = default_max_retries =>
            Len(wrapper.calls) <= 4
      /\ wrapper.pc = "loop" =>
            /\ Calls("error") = DOMAIN wrapper.calls
            /\ Len(wrapper.calls) <= wrapper.max_retries
      /\ wrapper.pc = "returned" =>
            /\ OnlyLastIs("returned")
            /\ wrapper.result[1] = "return"
      /\ (wrapper.pc = "raised" /\ Len(wrapper.result) = 2) =>
            /\ OnlyLastIs("other")
            /\ wrapper.result[2] \in OtherExceptions
      /\ (wrapper.pc = "raised" /\ Len(wrapper.result) = 3) =>
            /\ Calls("error") = 1..(wrapper.max_retries + 1)
            /\ Len(wrapper.calls) = wrapper.max_retries + 1
            /\ wrapper.result[3] \in errors

C34_BoundedRetries ==
    /\ []C34_Safe
    /\ <>(wrapper # <<>> /\ wrapper.pc \in {"returned", "raised"})

\* the default max_retries, three listed errors and then a result
C34_Witness ==
    /\ wrapper # <<>>
    /\ wrapper.max_retries = default_max_retries
    /\ wrapper.pc = "returned"
    /\ Len(wrapper.calls) = 4

\* ... and four listed errors
C34_WitnessGivesUp ==
    /\ wrapper # <<>>
    /\ wrapper.max_retries = default_max_retries
    /\ wrapper.pc = "raised"
    /\ Len(wrapper.result) = 3

\* C35: on_send puts exactly one response envelope, addressed to the sender
\* of the request, for every REQUEST sent to ChatCompletionConnection and
\* every CONSUME_REQUEST or PUBLISH_REQUEST sent to RabbitMQConnection; it
\* puts no envelope for any other performative; no exception leaves it.
RequestPerformatives == {"request", "consume_request", "publish_request"}

C35_OneResponsePerRequest ==
    on_send # <<>> =>
      /\ on_send.raised = ""
      /\ IF on_send.envelope.performative \in RequestPerformatives
         THEN /\ Len(on_send.put) = 1
              /\ on_send.put[1].to = on_send.envelope.sender
              /\ on_send.put[1].sender = on_send.envelope.to
         ELSE on_send.put = <<>>

\* C39: a CONSUME_REQUEST changes the queue only by removing the message
\* that its response returns with received_request = "True"; when the
\* response has received_request = "False" the queue is unchanged.
ConsumeServed ==
    /\ on_send' # <<>>
    /\ on_send'.envelope.performative = "consume_request"

C39_AckOnlyWhenReturned ==
    [][ConsumeServed =>
         LET response == on_send'.put[1].response IN
         IF response.received_request = "True"
         THEN /\ queues["requests"] # <<>>
              /\ queues'["requests"] = Tail(queues["requests"])
              /\ response.data[1].keys =
                    Head(queues["requests"]).keys \cup {"system_message"}
         ELSE queues' = queues
      ]_vars

\* C36: a request that a handler appended to the local list of new chat
\* requests or new embedding requests is eventually in `chats` or
\* `embedding`, unless a behaviour has raised; a request is told by its
\* request_time.
LocallyAccepted(t) ==
    \E a \in Agents :
       \/ \E i \in DOMAIN state_new_chat_requests[a] :
             state_new_chat_requests[a][i].request_time = t
       \/ \E i \in DOMAIN state_new_embedding_requests[a] :
             state_new_embedding_requests[a][i].request_time = t

Replicated(t) ==
    \/ \E i \in DOMAIN chats : chats[i].request_time = t
    \/ \E i \in DOMAIN embedding : embedding[i].request_time = t

C36_NoSubmissionLost ==
    \A t \in 1..NumArrivals :
       LocallyAccepted(t) ~> (Replicated(t) \/ v_exception # "")

\* C38: from a WaitForRequestRound to the end of the PublishResponseRound
\* that follows it the keeper stays the same; the requests are published
\* in the order they were consumed, each once, by the agent that consumed
\* it, and at most one consumed request is not published yet.
KeeperStays ==
    (llm_round \in KeeperRounds /\ llm_round' \in KeeperRounds) =>
        most_voted_keeper_address' = most_voted_keeper_address

\* the number of requests taken from the request queue so far
Consumed == NumJobs - Len(request_queue)

PublishedInStep ==
    llm_round # "" =>
       /\ Len(response_queue) \in {Consumed - 1, Consumed}
       /\ \A k \in DOMAIN response_queue :
             response_queue[k] = [id |-> k, response |-> k]
       /\ Len(response_queue) < Consumed =>
             /\ llm_round \in KeeperRounds
             /\ interact_rabbitmq[most_voted_keeper_address].request
                   = Consumed
             /\ \A a \in Agents \ {most_voted_keeper_address} :
                   interact_rabbitmq[a].request # Consumed

C38_KeeperPublishesWhatItConsumed ==
    [](PublishedInStep) /\ [][KeeperStays]_vars

\* a second request was published, by another keeper than the first
C38_Witness ==
    /\ Len(response_queue) >= 2
    /\ \E a, b \in Agents :
          /\ a # b
          /\ interact_rabbitmq[a].request = 1
          /\ interact_rabbitmq[b].request = 2

\* C37: when every round collects all payloads and no LLM call fails,
\* every request in `requests` has a processor once the
\* SynchronizeRequestsRound has ended, and its id is eventually in
\* `responses`.
SomeCallFailed == \E k \in DOMAIN failures : failures[k] > 0

AllAssigned ==
    round = "ProcessRequestRound" =>
        \A i \in DOMAIN requests : requests[i].processor \in Agents

\* the ids the handlers have accepted so far, and the ids still on
\* their way in a payload of the open round
AcceptedIds == 1..(LiveRequests - quota)

PayloadIds ==
    IF round = "SynchronizeRequestsRound"
    THEN UNION {{r.id : r \in collection[a].new_requests} :
                   a \in DOMAIN collection}
    ELSE {}

Accounted ==
    AcceptedIds \subseteq
        (RequestIds(requests) \cup RequestIds(responses) \cup PayloadIds)

EntersCollectRandomness ==
    /\ llm_round' = "CollectRandomnessRound"
    /\ llm_submitted' = EmptyCollection
    /\ <<llm_round, llm_event, llm_submitted>>' #
          <<llm_round, llm_event, llm_submitted>>

C40_RetryCounterReset ==
    [][EntersCollectRandomness =>
          \A a \in Agents : retries'[a] = 0 /\ ~RetriesExceeded(a)']_vars

====
